---- MODULE Spec2Model ----
(***************************************************************************)
(* Structural model of ngx-strong-forms: the typed wrappers                *)
(* TypedFormControl / TypedFormGroup / TypedFormDictionary /               *)
(* TypedFormArray over the @angular/forms runtime controls.                *)
(*                                                                         *)
(* A node is a pair <<kind, id>>.  The runtime control owned by a wrapper  *)
(* (its _ctrl / ng field) is created by the wrapper's constructor and      *)
(* never reassigned, so the runtime control of node n is identified with   *)
(* n itself: "the runtime child at k is n's underlying control" reads      *)
(* ngControls[c][k] = n, and "n's runtime control has P's runtime control  *)
(* as its parent" reads ngParent[n] = P.                                   *)
(*                                                                         *)
(* The repository holds two variants of the four classes: the one with     *)
(* typed validators (impl = "models") and the earlier one built on _ctrl   *)
(* (impl = "legacy").  Both are modelled; impl is fixed by Init.           *)
(***************************************************************************)
EXTENDS Integers, Sequences, FiniteSets, TLC

VARIABLES impl, built, parent, ngParent, controls, ngControls, disabled, value,
          direct, recording, last,
          validators, composed, received, streams, settled, emitted, thrown,
          kind, status, errors, pristine, touched, children, hasControls,
          rawValidators, validator, ngValidator,
          rawAsyncValidators, asyncValidator, ngAsyncValidator,
          inflight, observed, runs, notified, did,
          typeArgument, typeResult, dictionary

\* the tree of wrappers and runtime controls
tree == <<impl, built, parent, ngParent, controls, ngControls, disabled, value,
          direct, recording, last>>

\* one composition of validators and one invocation of what it returned
composition == <<validators, composed, received, streams, settled, emitted, thrown>>

\* one wrapper with validators and its runtime control, outside any container
validation == <<kind, status, errors, pristine, touched, children, hasControls,
                rawValidators, validator, ngValidator,
                rawAsyncValidators, asyncValidator, ngAsyncValidator,
                inflight, observed, runs, notified, did>>

\* one type handed to the type-level definitions, what they made of it, and
\* one Dictionary as the compiler sees it
typing == <<typeArgument, typeResult, dictionary>>

vars == <<tree, composition, validation, typing>>

(* ------------------------------ bounds -------------------------------- *)

\* number of TypedFormControl leaves that exist
NumLeaves == 2

\* longest TypedFormArray the model lets grow
MaxLen == 2

\* longest list handed to compose and composeAsync
MaxValidators == 3

\* the validation passes and the notifications that are counted
MaxCount == 2

(* ------------------------------ universe ------------------------------ *)

None == <<"none", 0>>

Impls == {"models", "legacy"}

Leaves == {<<"control", i>> : i \in 1..NumLeaves}

TheGroup == <<"group", 1>>

TheDictionary == <<"dictionary", 1>>

TheArray == <<"array", 1>>

Containers == {TheGroup, TheDictionary, TheArray}

Nodes == Leaves \cup Containers

\* the field names of the Fixed Group's type parameter T
Fields == {"a", "b", "c"}

\* the string keys offered to the Dictionary
Keys == {"usa", "japan"}

\* the indices offered to the Array operations (in range, out of range, negative)
Indices == (0 - (MaxLen + 1))..(MaxLen + 1)

\* the values a leaf is given
Values == {0, 1}

\* the nodes that are handed to constructors and to the attach operations
Attachable == Leaves

EmptyMap == [k \in {} |-> None]

\* every mapping from a subset of ks to nodes of ns
PartialMaps(ks, ns) == UNION {[d -> ns] : d \in SUBSET ks}

\* every sequence over ns of length at most n
SeqsUpTo(ns, n) == UNION {[1..m -> ns] : m \in 0..n}

Min(a, b) == IF a < b THEN a ELSE b

Max(a, b) == IF a > b THEN a ELSE b

(* ------------------------ JavaScript primitives ----------------------- *)

\* Array.prototype.splice: the 0-based start it actually uses
SpliceStart(len, index) == IF index < 0 THEN Max(len + index, 0) ELSE Min(index, len)

\* arr.splice(index, 0, x): the array afterwards
SpliceInsert(s, index, x) ==
  LET st == SpliceStart(Len(s), index)
  IN  SubSeq(s, 1, st) \o <<x>> \o SubSeq(s, st + 1, Len(s))

\* arr.splice(index, 1): the elements it returns
SpliceDeleted(s, index) ==
  LET st == SpliceStart(Len(s), index)
  IN  IF st < Len(s) THEN <<s[st + 1]>> ELSE <<>>

\* arr.splice(index, 1): the array afterwards
SpliceRemove(s, index) ==
  LET st == SpliceStart(Len(s), index)
  IN  IF st < Len(s) THEN SubSeq(s, 1, st) \o SubSeq(s, st + 2, Len(s)) ELSE s

\* obj[name] is truthy (names are ordinary own keys; children are objects)
Has(m, name) == name \in DOMAIN m

\* delete obj[name]
Delete(m, name) == [k \in (DOMAIN m) \ {name} |-> m[k]]

\* obj[name] = x
Put(m, name, x) == [k \in (DOMAIN m) \cup {name} |-> IF k = name THEN x ELSE m[k]]

\* the elements of a sequence or the values of a mapping
Range(m) == {m[k] : k \in DOMAIN m}

(* ------------------- the structure as one value ----------------------- *)

\* parent: each wrapper's _parent;  ngParent: each runtime control's parent;
\* controls: each container wrapper's _controls;  ngControls: the children of
\* each container's runtime control;  disabled: the runtime controls whose
\* status is DISABLED;  value: each runtime control's value field
Here == [parent |-> parent, ngParent |-> ngParent,
         controls |-> controls, ngControls |-> ngControls,
         disabled |-> disabled, value |-> value]

(* ---------------- @angular/forms runtime operations ------------------- *)

\* AbstractControl.setParent(parent)
NgSetParent(s, n, p) == [s EXCEPT !.ngParent[n] = p]

\* AbstractControl.enabled: status !== DISABLED
NgEnabled(s, n) == n \notin s.disabled

\* the runtime children of a control (a FormControl has none)
NgChildren(s, n) == IF n \in Leaves THEN {} ELSE Range(s.ngControls[n])

\* _allControlsDisabled(): a FormControl answers this.disabled; a FormGroup or
\* FormArray answers false if a child is enabled, else
\* (number of children > 0 || this.disabled)
NgAllControlsDisabled(s, n) ==
  IF n \in Leaves
  THEN n \in s.disabled
  ELSE /\ \A x \in NgChildren(s, n) : ~NgEnabled(s, x)
       /\ (NgChildren(s, n) # {} \/ n \in s.disabled)

\* FormGroup._reduceValue() / FormArray._updateValue(): the values of the
\* children that are enabled, of all children if the control itself is disabled
NgReduceValue(s, c) ==
  IF c = TheArray
  THEN LET kept == SelectSeq(s.ngControls[c],
                             LAMBDA x : NgEnabled(s, x) \/ c \in s.disabled)
       IN  [i \in 1..Len(kept) |-> s.value[kept[i]]]
  ELSE LET kept == {k \in DOMAIN s.ngControls[c] :
                      NgEnabled(s, s.ngControls[c][k]) \/ c \in s.disabled}
       IN  [k \in kept |-> s.value[s.ngControls[c][k]]]

\* _updateValue(): nothing for a FormControl
NgUpdateValue(s, n) ==
  IF n \in Leaves THEN s ELSE [s EXCEPT !.value[n] = NgReduceValue(s, n)]

\* the longest chain of parents that ends: one link per node
Depth == Cardinality(Nodes)

\* AbstractControl.updateValueAndValidity(opts): _setInitialStatus(),
\* _updateValue(), then the same on the parent unless opts.onlySelf (no
\* validators are attached, so an enabled control is VALID).  Where the
\* parents form a cycle the calls nest until the stack is exhausted and the
\* call raises RangeError, the controls staying as the calls left them.
RECURSIVE NgUpdateUpTo(_, _, _, _)
NgUpdateUpTo(s, n, onlySelf, depth) ==
  LET s1 == [s EXCEPT !.disabled = IF NgAllControlsDisabled(s, n)
                                   THEN @ \cup {n} ELSE @ \ {n}]
      s2 == NgUpdateValue(s1, n)
  IN  IF s2.ngParent[n] # None /\ ~onlySelf /\ depth > 0
      THEN NgUpdateUpTo(s2, s2.ngParent[n], onlySelf, depth - 1)
      ELSE s2

NgUpdateValueAndValidity(s, n, onlySelf) == NgUpdateUpTo(s, n, onlySelf, Depth)

\* _updateAncestors(opts)
NgUpdateAncestors(s, n, onlySelf) ==
  IF s.ngParent[n] # None /\ ~onlySelf
  THEN NgUpdateValueAndValidity(s, s.ngParent[n], onlySelf)
  ELSE s

\* a control and everything below it (the children of this model's
\* containers are leaves)
NgSubtree(s, n) == {n} \cup NgChildren(s, n)

\* AbstractControl.disable(opts): DISABLED here and, with onlySelf, on every
\* child; the own value again; then the ancestors
NgDisable(s, n, onlySelf) ==
  LET s1 == [s EXCEPT !.disabled = @ \cup NgSubtree(s, n)]
  IN  NgUpdateAncestors(NgUpdateValue(s1, n), n, onlySelf)

\* AbstractControl.enable(opts): VALID here and, with onlySelf, on every
\* child; updateValueAndValidity({onlySelf: true}); then the ancestors
NgEnable(s, n, onlySelf) ==
  LET s1 == [s EXCEPT !.disabled = @ \ NgSubtree(s, n)]
  IN  NgUpdateAncestors(NgUpdateValueAndValidity(s1, n, TRUE), n, onlySelf)

\* new FormGroup(controls) / new FormArray(controls): stores the children,
\* in _setUpControls sets the parent of each of them, and ends with
\* updateValueAndValidity({onlySelf: true})
NgConstruct(s, c, cs) ==
  NgUpdateValueAndValidity(
    [s EXCEPT !.ngControls[c] = cs,
              !.ngParent = [n \in Nodes |-> IF n \in Range(cs) THEN c ELSE @[n]]],
    c, TRUE)

\* FormGroup.registerControl(name, control)
NgRegisterControl(s, c, name, n) ==
  IF Has(s.ngControls[c], name)
  THEN s
  ELSE NgSetParent([s EXCEPT !.ngControls[c] = Put(@, name, n)], n, c)

\* FormGroup.addControl(name, control)
NgAddControl(s, c, name, n) ==
  NgUpdateValueAndValidity(NgRegisterControl(s, c, name, n), c, FALSE)

\* FormGroup.removeControl(name)
NgRemoveControl(s, c, name) ==
  NgUpdateValueAndValidity([s EXCEPT !.ngControls[c] = Delete(@, name)], c, FALSE)

\* FormGroup.setControl(name, control)
NgSetControl(s, c, name, n) ==
  NgUpdateValueAndValidity(
    NgRegisterControl([s EXCEPT !.ngControls[c] = Delete(@, name)], c, name, n),
    c, FALSE)

\* FormArray.push(control)
NgPush(s, c, n) ==
  NgUpdateValueAndValidity(
    NgSetParent([s EXCEPT !.ngControls[c] = Append(@, n)], n, c), c, FALSE)

\* FormArray.insert(index, control)
NgInsert(s, c, index, n) ==
  NgUpdateValueAndValidity(
    NgSetParent([s EXCEPT !.ngControls[c] = SpliceInsert(@, index, n)], n, c),
    c, FALSE)

\* FormArray.removeAt(index)
NgRemoveAt(s, c, index) ==
  NgUpdateValueAndValidity([s EXCEPT !.ngControls[c] = SpliceRemove(@, index)], c, FALSE)

\* FormArray.setControl(index, control)
NgArraySetControl(s, c, index, n) ==
  NgUpdateValueAndValidity(
    NgSetParent([s EXCEPT !.ngControls[c] = SpliceInsert(SpliceRemove(@, index), index, n)], n, c),
    c, FALSE)

\* FormControl.setValue(value, options)
NgSetValueLeaf(s, n, v, onlySelf) ==
  NgUpdateValueAndValidity([s EXCEPT !.value[n] = v], n, onlySelf)

\* value.forEach / Object.keys(value).forEach: each child, in the order of the
\* value's keys, gets its part with setValue(part, {onlySelf: true})
RECURSIVE NgSetEach(_, _, _, _)
NgSetEach(s, c, v, order) ==
  IF order = <<>>
  THEN s
  ELSE NgSetEach(NgSetValueLeaf(s, s.ngControls[c][Head(order)], v[Head(order)], TRUE),
                 c, v, Tail(order))

\* FormGroup.setValue / FormArray.setValue(value, options): throws before it
\* assigns anything unless every child has a part (_checkAllValuesPresent) and
\* every part has a child (_throwIfControlMissing; the children, if any, all
\* lack a part when one part lacks a child); then sets the children and ends
\* with updateValueAndValidity(options)
NgSetValue(s, n, v, order, onlySelf) ==
  IF n \in Leaves
  THEN NgSetValueLeaf(s, n, v, onlySelf)
  ELSE IF DOMAIN v = DOMAIN s.ngControls[n]
       THEN NgUpdateValueAndValidity(NgSetEach(s, n, v, order), n, onlySelf)
       ELSE s

\* FormGroup.contains(name): the key is present and its control is enabled
NgContains(s, c, name) ==
  Has(s.ngControls[c], name) /\ NgEnabled(s, s.ngControls[c][name])

(* -------------------------- the wrappers ------------------------------ *)

\* AbstractTypedControl.setParent(parent)
SetParent(s, n, p) == NgSetParent([s EXCEPT !.parent[n] = p], n, p)

\* deletedControls.forEach(deletedControl => deletedControl.setParent(null))
RECURSIVE DetachAll(_, _)
DetachAll(s, ds) ==
  IF ds = <<>> THEN s ELSE DetachAll(SetParent(s, Head(ds), None), Tail(ds))

\* the constructors of TypedFormGroup, TypedFormDictionary and TypedFormArray:
\* build the runtime control from the children's runtime controls, then keep
\* the children
Construct(s, c, cs) == [NgConstruct(s, c, cs) EXCEPT !.controls[c] = cs]

\* setControl that drops the field from the wrapper and never stores the node
GroupSetControlDropsField(s, c, name, n) ==
  NgSetControl(SetParent([s EXCEPT !.controls[c] = Delete(@, name)], n, c), c, name, n)

\* TypedFormGroup.setControl(name, control)
GroupSetControl(s, c, name, n) ==
  LET s1 == [s EXCEPT !.controls[c] = Delete(@, name)]
      s2 == SetParent([s1 EXCEPT !.controls[c] = Put(@, name, n)], n, c)
  IN  NgSetControl(s2, c, name, n)

\* registerControl that never registers the node with the runtime control
DictRegisterControlWrapperOnly(s, c, name, n) ==
  IF Has(s.controls[c], name)
  THEN s
  ELSE SetParent([s EXCEPT !.controls[c] = Put(@, name, n)], n, c)

\* TypedFormDictionary.registerControl(name, control)
DictRegisterControl(s, c, name, n) ==
  IF Has(s.controls[c], name)
  THEN s
  ELSE NgRegisterControl(SetParent([s EXCEPT !.controls[c] = Put(@, name, n)], n, c), c, name, n)

\* addControl that stores the node whether or not the key is taken
DictAddControlReplaces(s, c, name, n) ==
  NgAddControl(SetParent([s EXCEPT !.controls[c] = Put(@, name, n)], n, c), c, name, n)

\* TypedFormDictionary.addControl(name, control)
DictAddControl(s, c, name, n) ==
  LET s1 == IF ~Has(s.controls[c], name)
            THEN SetParent([s EXCEPT !.controls[c] = Put(@, name, n)], n, c)
            ELSE s
  IN  NgAddControl(s1, c, name, n)

\* removeControl that never removes the key from the runtime control
DictRemoveControlWrapperOnly(s, c, name) == [s EXCEPT !.controls[c] = Delete(@, name)]

\* TypedFormDictionary.removeControl(name)
DictRemoveControl(s, c, name) ==
  NgRemoveControl([s EXCEPT !.controls[c] = Delete(@, name)], c, name)

\* TypedFormDictionary.setControl(name, control)
DictSetControl(s, c, name, n) ==
  LET s1 == [s EXCEPT !.controls[c] = Delete(@, name)]
      s2 == SetParent([s1 EXCEPT !.controls[c] = Put(@, name, n)], n, c)
  IN  NgSetControl(s2, c, name, n)

\* contains that only looks for the key among the wrapper's children
DictContainsKeyOnly(s, c, name) == Has(s.controls[c], name)

\* TypedFormDictionary.contains(controlName)
DictContains(s, c, name) == NgContains(s, c, name)

\* setValue that leaves the last child of the value untouched
SetValueButLast(s, n, v, order, onlySelf) ==
  NgSetValue(s, n, v, IF order = <<>> THEN order ELSE SubSeq(order, 1, Len(order) - 1),
             onlySelf)

\* setValue(value, options) of the four wrappers
SetValue(s, n, v, order, onlySelf) == NgSetValue(s, n, v, order, onlySelf)

\* the value getter of the four wrappers
GetValue(s, n) == s.value[n]

\* AbstractTypedControl.disable(opts)
Disable(s, n, onlySelf) == NgDisable(s, n, onlySelf)

\* AbstractTypedControl.enable(opts)
Enable(s, n, onlySelf) == NgEnable(s, n, onlySelf)

\* push that puts the child in front of the wrapper's children
ArrayPushPrepends(s, c, n) ==
  NgPush(SetParent([s EXCEPT !.controls[c] = <<n>> \o @], n, c), c, n)

\* TypedFormArray.push(control)
ArrayPush(s, c, n) ==
  NgPush(SetParent([s EXCEPT !.controls[c] = Append(@, n)], n, c), c, n)

\* insert that appends to the wrapper's children whatever the index
ArrayInsertAppends(s, c, index, n) ==
  NgInsert(SetParent([s EXCEPT !.controls[c] = Append(@, n)], n, c), c, index, n)

\* TypedFormArray.insert(index, control)
ArrayInsert(s, c, index, n) ==
  NgInsert(SetParent([s EXCEPT !.controls[c] = SpliceInsert(@, index, n)], n, c), c, index, n)

\* TypedFormArray.removeAt(index): the legacy variant detaches what it removed
ArrayRemoveAt(s, c, index) ==
  LET deleted == SpliceDeleted(s.controls[c], index)
      s1 == [s EXCEPT !.controls[c] = SpliceRemove(@, index)]
      s2 == IF impl = "legacy" THEN DetachAll(s1, deleted) ELSE s1
  IN  NgRemoveAt(s2, c, index)

\* TypedFormArray.setControl(index, control): the legacy variant detaches what
\* it displaced
ArraySetControl(s, c, index, n) ==
  LET deleted == SpliceDeleted(s.controls[c], index)
      s1 == [s EXCEPT !.controls[c] = SpliceRemove(@, index)]
      s2 == IF impl = "legacy" THEN DetachAll(s1, deleted) ELSE s1
      s3 == SetParent([s2 EXCEPT !.controls[c] = SpliceInsert(@, index, n)], n, c)
  IN  NgArraySetControl(s3, c, index, n)

\* setControl(name, control) of a Group or a Dictionary with control null or
\* undefined: the entry is deleted, if (control) is skipped, and control.ng
\* (control._ctrl) throws TypeError before the runtime control is called
SetControlAbsent(s, c, name) == [s EXCEPT !.controls[c] = Delete(@, name)]

\* TypedFormArray.setControl(index, control) with control null or undefined:
\* the element is spliced out (the legacy variant detaches it), if (control)
\* is skipped, and control.ng (control._ctrl) throws TypeError
ArraySetControlAbsent(s, c, index) ==
  LET deleted == SpliceDeleted(s.controls[c], index)
      s1 == [s EXCEPT !.controls[c] = SpliceRemove(@, index)]
  IN  IF impl = "legacy" THEN DetachAll(s1, deleted) ELSE s1

\* at that counts a negative index from the end, as splice does
ArrayAtFromEnd(s, c, index) ==
  LET i == IF index < 0 THEN Len(s.controls[c]) + index ELSE index
  IN  IF i >= 0 /\ i < Len(s.controls[c]) THEN s.controls[c][i + 1] ELSE None

\* TypedFormArray.at(index): undefined (None) outside 0..length-1
ArrayAt(s, c, index) ==
  IF index >= 0 /\ index < Len(s.controls[c]) THEN s.controls[c][index + 1] ELSE None

(* ------------------------------- root -------------------------------- *)

\* a walk that never ends
Diverges == <<"diverges", 0>>

\* while (x._parent) x = x._parent: a walk of more links than there are
\* nodes is in a cycle and never leaves it
RECURSIVE RootFrom(_, _, _)
RootFrom(s, x, links) ==
  IF s.parent[x] = None THEN x
  ELSE IF links = 0 THEN Diverges
  ELSE RootFrom(s, s.parent[x], links - 1)

\* AbstractTypedControl.root
Root(s, n) == RootFrom(s, n, Depth)

(* ----------------------------- get(path) ----------------------------- *)

\* a path segment is a string or a number
Str(s) == [tag |-> "string", s |-> s]

Num(n) == [tag |-> "number", n |-> n]

\* the property key a segment is used as: obj[0] reads obj["0"]
PropertyKey(name) == IF name.tag = "number" THEN ToString(name.n) ELSE name.s

\* a path given as a string is a sequence of chunks of characters, the
\* delimiter being a chunk of its own: 'usa.0' is <<"usa", ".", "0">>
StringOf(chunks) == [tag |-> "string", chunks |-> chunks]

\* path.split(delimiter): the pieces between the delimiters, '' giving ['']
RECURSIVE SplitFrom(_, _, _, _)
SplitFrom(chunks, delimiter, piece, pieces) ==
  IF chunks = <<>> THEN Append(pieces, Str(piece))
  ELSE IF Head(chunks) = delimiter
       THEN SplitFrom(Tail(chunks), delimiter, "", Append(pieces, Str(piece)))
       ELSE SplitFrom(Tail(chunks), delimiter, piece \o Head(chunks), pieces)

Split(chunks, delimiter) == SplitFrom(chunks, delimiter, "", <<>>)

\* what is not a node: a number read off an array, and the TypeError of
\* calling what is not a function
NumberValue(n) == <<"number", n>>

TypeError == <<"TypeError", 0>>

\* controlToFind.at(name) || null, name being whatever the path holds:
\* this.controls[name] reads the element for an index or its decimal string,
\* the length for 'length', undefined otherwise; undefined and 0 give null
FindAt(s, c, name) ==
  LET len  == Len(s.controls[c])
      key  == PropertyKey(name)
      hits == {i \in 0..(len - 1) : ToString(i) = key}
  IN  IF hits # {} THEN ArrayAt(s, c, CHOOSE i \in hits : TRUE)
      ELSE IF key = "length" /\ len # 0 THEN NumberValue(len)
      ELSE None

\* controls.has(name) ? controls.get(name) : null on the Dictionary's
\* controls, a plain object: has is not a function, whatever the keys are
FindKey(s, c, name) == TypeError

\* controls.hasOwnProperty(name) ? controls[name] : null
FindField(s, c, name) ==
  IF Has(s.controls[c], PropertyKey(name)) THEN s.controls[c][PropertyKey(name)] ELSE None

\* path.forEach(...) / path.reduce(...): one segment after the other, an
\* error ending the call
RECURSIVE FindEach(_, _, _)
FindEach(s, controlToFind, path) ==
  IF path = <<>> \/ controlToFind = TypeError THEN controlToFind
  ELSE LET name == Head(path)
           next == IF controlToFind[1] = "array" THEN FindAt(s, controlToFind, name)
                   ELSE IF controlToFind[1] = "dictionary" THEN FindKey(s, controlToFind, name)
                   ELSE IF controlToFind[1] = "group" THEN FindField(s, controlToFind, name)
                   ELSE None
       IN  FindEach(s, next, Tail(path))

\* _find(control, path, delimiter)
Find(s, control, path, delimiter) ==
  IF path.tag \in {"null", "undefined"} THEN None
  ELSE LET segments == IF path.tag = "array" THEN path.list
                       ELSE Split(path.chunks, delimiter)
       IN  IF Len(segments) = 0 THEN None ELSE FindEach(s, control, segments)

\* AbstractTypedControl.get(path)
Get(s, n, path) == Find(s, n, path, ".")

(* ---------------------- validator composition ------------------------ *)

\* JavaScript values carry a tag: null, undefined, an error mapping
\* (ValidationErrors), an object that may have a callable then and a callable
\* subscribe, a validator function, a composed function
JsNull == [tag |-> "null"]

JsUndefined == [tag |-> "undefined"]

ErrorsOf(m) == [tag |-> "errors", map |-> m]

\* the error mappings offered: two details for one code, another code, and
\* the mapping without keys
ErrorMaps == {[required |-> 1], [required |-> 2], [min |-> 1], EmptyMap}

\* what a validator reports about a control: null or an error mapping
Results == {JsNull} \cup {ErrorsOf(m) : m \in ErrorMaps}

\* a validator function, given by what it returns for the control at hand
ValidatorFn(r) == [tag |-> "validator", returns |-> r]

\* what an async validator may return: an object that later settles with a
\* result
AsyncObject(then, subscribe, r) ==
  [tag |-> "object", then |-> then, subscribe |-> subscribe, settles |-> r]

\* o != null
isPresent(o) == o.tag \notin {"null", "undefined"}

\* !!obj && typeof obj.then === 'function'
isPromise(obj) == obj.tag = "object" /\ obj.then

\* !!obj && typeof obj.subscribe === 'function'
isSubscribable(obj) == obj.tag = "object" /\ obj.subscribe

isObservable(obj) == isSubscribable(obj)

\* rxjs from(promise): an Observable that emits what the promise resolves with
From(r) == [tag |-> "object", then |-> FALSE, subscribe |-> TRUE,
            settles |-> r.settles, from |-> r]

\* what an invocation that throws yields in place of a value
Thrown == [tag |-> "thrown"]

\* toObservable that lets every value through
toObservableUnchecked(r) == IF isPromise(r) THEN From(r) ELSE r

\* toObservable(r)
toObservable(r) ==
  LET obs == IF isPromise(r) THEN From(r) ELSE r
  IN  IF ~isObservable(obs) THEN Thrown ELSE obs

\* {...res, ...errors}
Spread(res, errs) ==
  [k \in DOMAIN res \cup DOMAIN errs |-> IF k \in DOMAIN errs THEN errs[k] ELSE res[k]]

\* the forEach of mergeErrors, from res onwards
RECURSIVE MergeFrom(_, _)
MergeFrom(res, arrayOfErrors) ==
  IF arrayOfErrors = <<>>
  THEN res
  ELSE MergeFrom(IF isPresent(Head(arrayOfErrors))
                 THEN Spread(res, Head(arrayOfErrors).map)
                 ELSE res,
                 Tail(arrayOfErrors))

\* mergeErrors in which the first validator to report a code wins
mergeErrorsFirstWins(arrayOfErrors) ==
  LET Rev == [i \in DOMAIN arrayOfErrors |-> arrayOfErrors[Len(arrayOfErrors) + 1 - i]]
      res == MergeFrom(EmptyMap, Rev)
  IN  IF DOMAIN res = {} THEN JsNull ELSE ErrorsOf(res)

\* mergeErrors(arrayOfErrors)
mergeErrors(arrayOfErrors) ==
  LET res == MergeFrom(EmptyMap, arrayOfErrors)
  IN  IF DOMAIN res = {} THEN JsNull ELSE ErrorsOf(res)

\* executeValidators(control, validators): each validator called on control
executeValidators(control, vs) == [i \in DOMAIN vs |-> vs[i].returns]

\* the function compose and composeAsync return, over the present validators
ComposedFn(present) == [tag |-> "function", validators |-> present]

\* TypedValidators.compose(validators) and, as far as the returned value
\* goes, TypedValidators.composeAsync(validators)
compose(vs) ==
  IF ~isPresent(vs)
  THEN JsNull
  ELSE LET presentValidators == SelectSeq(vs.list, isPresent)
       IN  IF Len(presentValidators) = 0 THEN JsNull ELSE ComposedFn(presentValidators)

\* a list of validators
ListOf(l) == [tag |-> "array", list |-> l]

\* forkJoin that emits each time a source settles, with what has settled
forkJoinEager(obs, done) ==
  <<[j \in 1..Len(done) |-> obs[done[j]].settles]>>

\* forkJoin(observables) when the sources in done have settled: nothing
\* until all have, then the array of their last values in source order
forkJoin(obs, done) ==
  IF Len(done) = Len(obs) THEN <<[j \in DOMAIN obs |-> obs[j].settles]>> ELSE <<>>

(* ------------------- one control and its validators ------------------ *)

VALID == "VALID"

INVALID == "INVALID"

PENDING == "PENDING"

DISABLED == "DISABLED"

Statuses == {VALID, INVALID, PENDING, DISABLED}

Kinds == {"control", "group", "dictionary", "array"}

\* the wrapper and its runtime control as one value.  kind: the class;
\* status, errors, pristine, touched: the runtime control's fields; children:
\* whether it has children and whether they are all disabled; hasControls:
\* the wrapper's _controls is assigned; rawValidators, validator: the
\* wrapper's _rawValidators and what its validator property reads;
\* ngValidator: the runtime control's composed validator; the same three for
\* the async validators; inflight: the async validation that has not settled
\* and whether its result is to be notified; observed: what the last
\* validator called was handed and found as its controls; runs: the passes in
\* which validators were called; notified: the notifications emitted
Self == [kind |-> kind, status |-> status, errors |-> errors,
         pristine |-> pristine, touched |-> touched, children |-> children,
         hasControls |-> hasControls,
         rawValidators |-> rawValidators, validator |-> validator,
         ngValidator |-> ngValidator,
         rawAsyncValidators |-> rawAsyncValidators,
         asyncValidator |-> asyncValidator,
         ngAsyncValidator |-> ngAsyncValidator,
         inflight |-> inflight, observed |-> observed, runs |-> runs,
         notified |-> notified]

Count(n) == Min(n, MaxCount)

\* AbstractTypedControl's getters (models: forwarded to the runtime control,
\* whose getters compare the status in the same way)
Valid(c) == c.status = VALID

Invalid(c) == c.status = INVALID

Pending(c) == c.status = PENDING

Disabled(c) == c.status = DISABLED

\* enabled that reads the valid flag
EnabledIfValid(c) == c.status = VALID

Enabled(c) == c.status # DISABLED

Pristine(c) == c.pristine

Dirty(c) == ~c.pristine

Touched(c) == c.touched

Untouched(c) == ~c.touched

\* composeValidators(validators): normalizeValidators leaves functions as
\* they are
composeValidators(vs) == IF isPresent(vs) THEN compose(vs) ELSE JsNull

\* coerceToValidator(validator) and coerceToAsyncValidator(asyncValidator)
coerceToValidator(v) ==
  IF v.tag = "array" THEN composeValidators(v) ELSE IF isPresent(v) THEN v ELSE JsNull

\* pickValidators(validatorOrOpts): validatorOrOpts || null
pickValidators(validatorOrOpts) ==
  IF isPresent(validatorOrOpts) THEN validatorOrOpts ELSE JsNull

\* function(ngControl) { return validatorFn(control); }
NgFn(control, validatorFn) == [tag |-> "ngValidator", typed |-> validatorFn]

\* toNgValidator that hands the runtime control nothing
toNgValidatorNone(control, validatorFn) == JsNull

\* toNgValidator(control, validatorFn) and toNgAsyncValidator
toNgValidator(control, validatorFn) ==
  IF ~isPresent(validatorFn) THEN JsNull
  ELSE IF validatorFn.tag = "array"
  THEN ListOf([i \in DOMAIN validatorFn.list |-> NgFn(control, validatorFn.list[i])])
  ELSE NgFn(control, validatorFn)

\* the runtime's own coerceToValidator: Validators.compose for an array
NgCoerceToValidator(v) ==
  IF v.tag = "array"
  THEN LET present == SelectSeq(v.list, isPresent)
       IN  IF Len(present) = 0 THEN JsNull ELSE [tag |-> "ngComposed", validators |-> present]
  ELSE IF isPresent(v) THEN v ELSE JsNull

\* AbstractControl.setValidators(v) / setAsyncValidators(v)
NgSetValidators(c, v) == [c EXCEPT !.ngValidator = NgCoerceToValidator(v)]

NgSetAsyncValidators(c, v) == [c EXCEPT !.ngAsyncValidator = NgCoerceToValidator(v)]

\* what a call of a typed validator, or of what compose returned, yields
Invoke(fn, control) ==
  IF fn.tag = "function"
  THEN mergeErrors(executeValidators(control, fn.validators))
  ELSE fn.returns

\* what a call of one function handed to the runtime control yields: the
\* typed validator's result (models), the function's own (legacy)
NgCallOne(g, control) == IF g.tag = "ngValidator" THEN Invoke(g.typed, control) ELSE g.returns

\* what a call of the runtime control's composed validator yields
NgCall(g, control) ==
  IF g.tag = "ngComposed"
  THEN mergeErrors([i \in DOMAIN g.validators |-> NgCallOne(g.validators[i], control)])
  ELSE NgCallOne(g, control)

\* what a validator called now is handed and finds: the runtime control
\* (legacy), the wrapper with its controls (models), the wrapper with
\* controls still undefined
Seen(c, g) ==
  LET one == IF g.tag = "ngComposed" THEN g.validators[1] ELSE g
  IN  IF one.tag # "ngValidator" THEN "ngControl"
      ELSE IF c.kind = "control" \/ c.hasControls THEN "wrapper"
      ELSE "wrapper without controls"

\* _allControlsDisabled()
AllControlsDisabled(c) ==
  IF c.kind = "control" THEN c.status = DISABLED
  ELSE c.children = "disabled" \/ (c.children = "none" /\ c.status = DISABLED)

\* _calculateStatus(): the children of this control, where enabled, are valid
CalculateStatus(c) ==
  IF AllControlsDisabled(c) THEN DISABLED
  ELSE IF isPresent(c.errors) THEN INVALID
  ELSE IF c.inflight # "none" THEN PENDING
  ELSE VALID

\* statusChanges.emit and valueChanges.emit
Emit(c, emitEvent, n) == [c EXCEPT !.notified = IF emitEvent THEN Count(@ + n) ELSE @]

\* the part of updateValueAndValidity that an enabled control goes through:
\* the pending async validation is dropped, the validator is run, the status
\* follows the errors, and the async validator is called where the status is
\* VALID or PENDING
RunValidators(c, emitEvent) ==
  LET c1 == [c EXCEPT !.inflight = "none"]
      c2 == IF isPresent(c1.ngValidator)
            THEN [c1 EXCEPT !.errors = NgCall(c1.ngValidator, c1),
                            !.observed = Seen(c1, c1.ngValidator),
                            !.runs = Count(@ + 1)]
            ELSE [c1 EXCEPT !.errors = JsNull]
      c3 == [c2 EXCEPT !.status = CalculateStatus(c2)]
  IN  IF c3.status \in {VALID, PENDING} /\ isPresent(c3.ngAsyncValidator)
      THEN [c3 EXCEPT !.status = PENDING,
                      !.inflight = IF emitEvent THEN "loud" ELSE "quiet",
                      !.observed = Seen(c3, c3.ngAsyncValidator),
                      !.runs = IF isPresent(c3.ngValidator) THEN @ ELSE Count(@ + 1)]
      ELSE c3

\* updateValueAndValidity(opts) of a control that has no parent
UpdateValueAndValidity(c, emitEvent) ==
  LET c1 == [c EXCEPT !.status = IF AllControlsDisabled(c) THEN DISABLED ELSE VALID]
      c2 == IF Enabled(c1) THEN RunValidators(c1, emitEvent) ELSE c1
  IN  Emit(c2, emitEvent, 2)

\* setErrors(errors, opts)
SetErrors(c, errs, emitEvent) ==
  LET c1 == [c EXCEPT !.errors = errs]
  IN  Emit([c1 EXCEPT !.status = CalculateStatus(c1)], emitEvent, 1)

\* what the promise or observable of a typed async validator, or of what
\* composeAsync returned, settles with
InvokeAsync(fn, control) ==
  IF fn.tag = "function"
  THEN mergeErrors([i \in DOMAIN fn.validators |-> fn.validators[i].returns.settles])
  ELSE fn.returns.settles

NgCallOneAsync(g, control) ==
  IF g.tag = "ngValidator" THEN InvokeAsync(g.typed, control) ELSE g.returns.settles

\* what the runtime control's composed async validator settles with
NgCallAsync(g, control) ==
  IF g.tag = "ngComposed"
  THEN mergeErrors([i \in DOMAIN g.validators |-> NgCallOneAsync(g.validators[i], control)])
  ELSE NgCallOneAsync(g, control)

\* the async validation settles: setErrors(result, {emitEvent})
Settle(c) ==
  SetErrors([c EXCEPT !.inflight = "none"],
            NgCallAsync(c.ngAsyncValidator, c), c.inflight = "loud")

\* markAsTouched / markAsUntouched / markAsDirty / markAsPristine
MarkAsTouched(c) == [c EXCEPT !.touched = TRUE]

MarkAsUntouched(c) == [c EXCEPT !.touched = FALSE]

MarkAsDirty(c) == [c EXCEPT !.pristine = FALSE]

MarkAsPristine(c) == [c EXCEPT !.pristine = TRUE]

\* markAsPending(opts)
MarkAsPending(c, emitEvent) == Emit([c EXCEPT !.status = PENDING], emitEvent, 1)

\* disable(opts): DISABLED, no errors, every child disabled
DisableControl(c, emitEvent) ==
  Emit([c EXCEPT !.status = DISABLED, !.errors = JsNull,
                 !.children = IF @ = "none" THEN @ ELSE "disabled"],
       emitEvent, 2)

\* enable(opts): VALID, every child enabled, then
\* updateValueAndValidity({onlySelf: true, emitEvent})
EnableControl(c, emitEvent) ==
  UpdateValueAndValidity([c EXCEPT !.status = VALID,
                                   !.children = IF @ = "none" THEN @ ELSE "enabled"],
                         emitEvent)

\* a runtime control as its constructor starts: enabled, pristine, untouched
Blank(k, kids) ==
  [kind |-> k, status |-> VALID, errors |-> JsNull, pristine |-> TRUE,
   touched |-> FALSE, children |-> kids, hasControls |-> FALSE,
   rawValidators |-> JsNull, validator |-> JsNull, ngValidator |-> JsNull,
   rawAsyncValidators |-> JsNull, asyncValidator |-> JsNull,
   ngAsyncValidator |-> JsNull,
   inflight |-> "none", observed |-> "nothing", runs |-> 0, notified |-> 0]

\* new FormControl / FormGroup / FormArray(..., validatorOrOpts, asyncValidator):
\* the validators given, then updateValueAndValidity({onlySelf: true,
\* emitEvent: false})
NgNew(k, kids, v, av) ==
  UpdateValueAndValidity(NgSetAsyncValidators(NgSetValidators(Blank(k, kids), v), av), FALSE)

\* the constructors of the models variant: the typed validators are kept and
\* composed, the runtime control is built without validators, the typed
\* validators are handed to it bound to the wrapper, one more
\* updateValueAndValidity({emitEvent: false}) follows, and then, in a
\* container, _controls is assigned
NewTyped(k, kids, validatorOrOpts, av) ==
  LET raw      == pickValidators(validatorOrOpts)
      rawAsync == pickValidators(av)
      c1 == [NgNew(k, kids, JsNull, JsNull) EXCEPT
               !.rawValidators = raw, !.rawAsyncValidators = rawAsync,
               !.validator = coerceToValidator(raw),
               !.asyncValidator = coerceToValidator(rawAsync)]
      c2 == NgSetValidators(c1, toNgValidator(c1, raw))
      c3 == NgSetAsyncValidators(c2, toNgValidator(c2, rawAsync))
      c4 == UpdateValueAndValidity(c3, FALSE)
  IN  [c4 EXCEPT !.hasControls = TRUE]

\* what the validator and asyncValidator properties of the legacy variant
\* read: the runtime control's
Forwarded(c) == [c EXCEPT !.validator = c.ngValidator, !.asyncValidator = c.ngAsyncValidator]

\* the constructors of the legacy variant: the runtime control is built with
\* the validators as given, then _controls is assigned
NewLegacy(k, kids, validatorOrOpts, av) ==
  LET c1 == NgNew(k, kids, validatorOrOpts, av)
  IN  Forwarded([c1 EXCEPT !.rawValidators = pickValidators(validatorOrOpts),
                           !.rawAsyncValidators = pickValidators(av),
                           !.hasControls = TRUE])

\* setValidators(newValidator): the models variant keeps and composes the
\* typed validators and hands them to the runtime control bound to the
\* wrapper; the legacy variant hands them over as they are
SetValidators(c, newValidator) ==
  IF impl = "models"
  THEN LET c1 == [c EXCEPT !.rawValidators = newValidator,
                           !.validator = coerceToValidator(newValidator)]
       IN  NgSetValidators(c1, toNgValidator(c1, newValidator))
  ELSE Forwarded(NgSetValidators([c EXCEPT !.rawValidators = pickValidators(newValidator)],
                                 newValidator))

\* setAsyncValidators(newAsyncValidator)
SetAsyncValidators(c, newAsyncValidator) ==
  IF impl = "models"
  THEN LET c1 == [c EXCEPT !.rawAsyncValidators = newAsyncValidator,
                           !.asyncValidator = coerceToValidator(newAsyncValidator)]
       IN  NgSetAsyncValidators(c1, toNgValidator(c1, newAsyncValidator))
  ELSE Forwarded(NgSetAsyncValidators(
                   [c EXCEPT !.rawAsyncValidators = pickValidators(newAsyncValidator)],
                   newAsyncValidator))

\* control.validator = validatorFn: the setter of the models variant assigns
\* _rawValidators and _composedValidatorFn; the legacy variant has a getter
\* only, the assignment throws TypeError and nothing is assigned
AssignValidator(c, validatorFn) ==
  IF impl = "models"
  THEN [c EXCEPT !.rawValidators = validatorFn, !.validator = validatorFn]
  ELSE c

\* control.asyncValidator = asyncValidatorFn
AssignAsyncValidator(c, asyncValidatorFn) ==
  IF impl = "models"
  THEN [c EXCEPT !.rawAsyncValidators = asyncValidatorFn, !.asyncValidator = asyncValidatorFn]
  ELSE c

\* clearValidators(): this.validator = null; this.ng.clearValidators()
ClearValidators(c) ==
  IF impl = "models"
  THEN NgSetValidators(AssignValidator(c, JsNull), JsNull)
  ELSE Forwarded(NgSetValidators([c EXCEPT !.rawValidators = JsNull], JsNull))

\* clearAsyncValidators()
ClearAsyncValidators(c) ==
  IF impl = "models"
  THEN NgSetAsyncValidators(AssignAsyncValidator(c, JsNull), JsNull)
  ELSE Forwarded(NgSetAsyncValidators([c EXCEPT !.rawAsyncValidators = JsNull], JsNull))

(* ------------------------------ actions ------------------------------- *)

Structure == <<parent, ngParent, controls, ngControls>>

\* what a specification observes besides structure and status: nothing
\* ("off"), the cached values and the setValue calls ("values"), the cached
\* values and every call ("calls"), or the get and root calls ("paths")
Observations == {"off", "values", "calls", "paths"}

\* the fields the handlers assign; the whole-tree specification (recording
\* off) follows the structure and the status only, not the cached values
Commit(t) ==
  /\ parent' = t.parent
  /\ ngParent' = t.ngParent
  /\ controls' = t.controls
  /\ ngControls' = t.ngControls
  /\ disabled' = t.disabled
  /\ value' = IF recording \in {"off", "paths"} THEN value ELSE t.value

\* what the last call was: the operation, its container, its key or index,
\* the node passed, and the child the wrapper held at that key or index before
Call(op, c, name, index, n, old) ==
  [op |-> op, c |-> c, name |-> name, index |-> index, node |-> n, old |-> old,
   v |-> None]

OldAt(m, name) == IF Has(m, name) THEN m[name] ELSE None

\* the child that arr.splice(index, 1) takes out, None if it takes none
Displaced(arr, index) ==
  IF SpliceDeleted(arr, index) = <<>> THEN None ELSE SpliceDeleted(arr, index)[1]

\* the same call made on the runtime controls directly: direct is a tree of
\* runtime controls, one per node, that no wrapper touches; it is followed
\* where the values are
Mirror(t) == direct' = IF recording = "values" THEN t ELSE direct

NoCall == Call("init", None, "", 0, None, None)

Log(call) ==
  last' = IF \/ recording = "calls"
             \/ recording = "values" /\ call.op = "setValue"
             \/ recording = "paths" /\ call.op \in {"get", "root"}
          THEN call
          ELSE NoCall

\* nothing but the leaves is constructed yet
StartTree ==
  /\ impl \in Impls
  /\ built = {}
  /\ parent = [n \in Nodes |-> None]
  /\ ngParent = [n \in Nodes |-> None]
  /\ controls = [c \in Containers |-> IF c = TheArray THEN <<>> ELSE EmptyMap]
  /\ ngControls = [c \in Containers |-> IF c = TheArray THEN <<>> ELSE EmptyMap]
  /\ disabled = {}
  /\ value = [n \in Nodes |-> IF n \in Leaves THEN 0 ELSE EmptyMap]
  /\ direct = [ngParent |-> ngParent, ngControls |-> ngControls,
               disabled |-> disabled, value |-> value]
  /\ last = NoCall

\* no list of validators composed
Uncomposed ==
  /\ composed = JsUndefined
  /\ received = <<>>
  /\ streams = <<>>
  /\ settled = <<>>
  /\ emitted = <<>>
  /\ thrown = FALSE

\* no wrapper with validators constructed
Unborn ==
  /\ kind = "none"
  /\ status = VALID
  /\ errors = JsNull
  /\ pristine = TRUE
  /\ touched = FALSE
  /\ children = "none"
  /\ hasControls = FALSE
  /\ rawValidators = JsNull
  /\ validator = JsNull
  /\ ngValidator = JsNull
  /\ rawAsyncValidators = JsNull
  /\ asyncValidator = JsNull
  /\ ngAsyncValidator = JsNull
  /\ inflight = "none"
  /\ observed = "nothing"
  /\ runs = 0
  /\ notified = 0
  /\ did = "init"

(* ------------------------------ the types ------------------------------ *)

\* the nesting of the node types that are handed to the type-level definitions
TypeDepth == 3

\* a type is a term: string, number, null, never, a union of types, an object
\* type, T[], Map<string, T>, { [key: string]: T } (which Record<string, T>
\* is), and the four classes with their type argument
StringType == [tag |-> "string"]

NumberType == [tag |-> "number"]

NullType == [tag |-> "null"]

NeverType == [tag |-> "never"]

Primitives == {StringType, NumberType}

\* the names of the fields of a Group and of a plain object
TypeFields == {"name", "count"}

TypedFormControlOf(T) == [tag |-> "TypedFormControl", of |-> T]

TypedFormArrayOf(T) == [tag |-> "TypedFormArray", of |-> T]

TypedFormDictionaryOf(T) == [tag |-> "TypedFormDictionary", of |-> T]

TypedFormGroupOf(fields) == [tag |-> "TypedFormGroup", fields |-> fields]

ObjectOf(fields) == [tag |-> "object", fields |-> fields]

ArrayOf(T) == [tag |-> "T[]", of |-> T]

MapOf(T) == [tag |-> "Map<string, T>", of |-> T]

IndexOf(T) == [tag |-> "{ [key: string]: T }", of |-> T]

\* the types a type is the union of: never is the union of none
Members(T) ==
  CASE T.tag = "union" -> T.of
    [] T.tag = "never" -> {}
    [] OTHER -> {T}

\* A | B | ...: a union of one type is that type, of none is never
UnionOf(types) ==
  CASE types = {} -> NeverType
    [] Cardinality(types) = 1 -> CHOOSE T \in types : TRUE
    [] OTHER -> [tag |-> "union", of |-> types]

NodeTags == {"TypedFormControl", "TypedFormArray", "TypedFormDictionary", "TypedFormGroup"}

\* S extends T, for types without a type above them but themselves: the four
\* classes differ in their members, and so do two instances of one class with
\* different arguments
Assignable(S, T) == \A s \in Members(S) : s \in Members(T)

RECURSIVE ValueType(_, _)
\* one branch of ValueType<T> = T extends TypedFormArray<infer U> ? ... :
\*   T extends TypedFormControl<infer V> ? ... : T extends
\*   TypedFormDictionary<infer W> ? ... : T extends TypedFormGroup<infer X> ?
\*   { [K in keyof X]: ValueType<X[K]> } : T extends {} ? { [K in keyof T]:
\*   ValueType<T[K]> } : never.  "models" has ValueType<U>[], V | null and
\*   { [key: string]: ValueType<W> }; "legacy" has U[], U and Map<string, U>.
\* A mapped type over a primitive is the primitive; null extends nothing here.
ValueTypeOf(variant, T) ==
  CASE T.tag = "TypedFormArray" ->
         ArrayOf(IF variant = "models" THEN ValueType(variant, T.of) ELSE T.of)
    [] T.tag = "TypedFormControl" ->
         IF variant = "models" THEN UnionOf(Members(T.of) \cup {NullType}) ELSE T.of
    [] T.tag = "TypedFormDictionary" ->
         IF variant = "models" THEN IndexOf(ValueType(variant, T.of)) ELSE MapOf(T.of)
    [] T.tag \in {"TypedFormGroup", "object"} ->
         ObjectOf([K \in DOMAIN T.fields |-> ValueType(variant, T.fields[K])])
    [] T.tag \in {"string", "number"} -> T
    [] OTHER -> NeverType

\* a conditional type on its bare parameter is taken of each member of a union
ValueType(variant, T) ==
  UnionOf(UNION {Members(ValueTypeOf(variant, U)) : U \in Members(T)})

\* get value(): the declared type of the value of a node of type K
ValueGetter(variant, K) ==
  CASE K.tag = "TypedFormControl" -> K.of
    [] K.tag = "TypedFormArray" -> ArrayOf(ValueType(variant, K.of))
    [] K.tag = "TypedFormDictionary" -> IndexOf(ValueType(variant, K.of))
    [] K.tag = "TypedFormGroup" -> ValueType(variant, ObjectOf(K.fields))

\* get valueChanges(): Observable<...>, its element type
ValueChangesGetter(variant, K) == ValueGetter(variant, K)

\* setValue(value: ...): a Leaf of "models" takes T | null
SetValueParameter(variant, K) ==
  IF K.tag = "TypedFormControl" /\ variant = "models"
  THEN UnionOf(Members(K.of) \cup {NullType})
  ELSE ValueGetter(variant, K)

\* NotUnion<T> = [T] extends [infer U] ? U extends any ? [T] extends [U] ? T :
\*   never : never : never, U being T and the second condition taken of each
\*   member of U
NotUnion(T) ==
  UnionOf(UNION {Members(IF Assignable(T, U) THEN T ELSE NeverType) : U \in Members(T)})

RECURSIVE NodeTypesUpTo(_)
\* the node types nested up to a depth
NodeTypesUpTo(depth) ==
  IF depth = 0 THEN {}
  ELSE LET inner == NodeTypesUpTo(depth - 1)
       IN {TypedFormControlOf(T) : T \in Primitives}
            \cup {TypedFormArrayOf(T) : T \in inner}
            \cup {TypedFormDictionaryOf(T) : T \in inner}
            \cup {TypedFormGroupOf(fields) : fields \in [TypeFields -> inner]}

NodeTypes == NodeTypesUpTo(TypeDepth)

\* the types that are no node: the primitives, and the objects of nodes and
\* primitives
PlainTypes ==
  Primitives \cup {ObjectOf(fields) :
                     fields \in [TypeFields -> NodeTypesUpTo(TypeDepth - 1) \cup Primitives]}

\* what a Dictionary is declared of: one node type, or a union of two
ElementTypes ==
  LET inner == NodeTypesUpTo(TypeDepth - 1)
  IN {UnionOf({S, T}) : S, T \in inner}

\* the types of the nodes in a child set handed to the Dictionary's constructor
ChildSets ==
  LET inner == NodeTypesUpTo(TypeDepth - 1)
  IN {{}} \cup {{S, T} : S, T \in inner}

NoResult == [op |-> "none", type |-> NeverType]

NoDictionary == [built |-> FALSE, of |-> {}]

\* the call compiles / it is an error of the compiler
Compiles == [tag |-> "compiles"]

CompileError == [tag |-> "error"]

\* no type handed to a type-level definition, no Dictionary declared
Untyped ==
  /\ typeArgument = NeverType
  /\ typeResult = NoResult
  /\ dictionary = NoDictionary

Start == StartTree /\ validators = JsNull /\ Uncomposed /\ Unborn /\ Untyped

Init == Start /\ recording = "off"

InitRecorded == Start /\ recording = "calls"

InitValues == Start /\ recording = "values"

\* _find and the constructors are the same in both variants: one is followed
InitPaths == Start /\ recording = "paths" /\ impl = "models"

NewGroup ==
  /\ TheGroup \notin built
  /\ \E cs \in [Fields -> Attachable] :
       /\ Commit(Construct(Here, TheGroup, cs))
       /\ Mirror(NgConstruct(direct, TheGroup, cs))
       /\ Log(Call("new", TheGroup, "", 0, None, None))
  /\ built' = built \cup {TheGroup}
  /\ UNCHANGED <<impl, recording, composition, validation, typing>>

NewDictionary ==
  /\ TheDictionary \notin built
  /\ \E cs \in PartialMaps(Keys, Attachable) :
       /\ Commit(Construct(Here, TheDictionary, cs))
       /\ Mirror(NgConstruct(direct, TheDictionary, cs))
       /\ Log(Call("new", TheDictionary, "", 0, None, None))
  /\ built' = built \cup {TheDictionary}
  /\ UNCHANGED <<impl, recording, composition, validation, typing>>

NewArray ==
  /\ TheArray \notin built
  /\ \E cs \in SeqsUpTo(Attachable, MaxLen) :
       /\ Commit(Construct(Here, TheArray, cs))
       /\ Mirror(NgConstruct(direct, TheArray, cs))
       /\ Log(Call("new", TheArray, "", 0, None, None))
  /\ built' = built \cup {TheArray}
  /\ UNCHANGED <<impl, recording, composition, validation, typing>>

GroupSetControlCall ==
  /\ TheGroup \in built
  /\ \E name \in Fields, n \in Attachable :
       /\ Commit(GroupSetControl(Here, TheGroup, name, n))
       /\ Mirror(NgSetControl(direct, TheGroup, name, n))
       /\ Log(Call("setControl", TheGroup, name, 0, n, OldAt(controls[TheGroup], name)))
  /\ UNCHANGED <<impl, built, recording, composition, validation, typing>>

DictRegisterControlCall ==
  /\ TheDictionary \in built
  /\ \E name \in Keys, n \in Attachable :
       /\ Commit(DictRegisterControl(Here, TheDictionary, name, n))
       /\ Mirror(NgRegisterControl(direct, TheDictionary, name, n))
       /\ Log(Call("registerControl", TheDictionary, name, 0, n,
                       OldAt(controls[TheDictionary], name)))
  /\ UNCHANGED <<impl, built, recording, composition, validation, typing>>

DictAddControlCall ==
  /\ TheDictionary \in built
  /\ \E name \in Keys, n \in Attachable :
       /\ Commit(DictAddControl(Here, TheDictionary, name, n))
       /\ Mirror(NgAddControl(direct, TheDictionary, name, n))
       /\ Log(Call("addControl", TheDictionary, name, 0, n,
                       OldAt(controls[TheDictionary], name)))
  /\ UNCHANGED <<impl, built, recording, composition, validation, typing>>

DictRemoveControlCall ==
  /\ TheDictionary \in built
  /\ \E name \in Keys :
       /\ Commit(DictRemoveControl(Here, TheDictionary, name))
       /\ Mirror(NgRemoveControl(direct, TheDictionary, name))
       /\ Log(Call("removeControl", TheDictionary, name, 0, None,
                       OldAt(controls[TheDictionary], name)))
  /\ UNCHANGED <<impl, built, recording, composition, validation, typing>>

DictSetControlCall ==
  /\ TheDictionary \in built
  /\ \E name \in Keys, n \in Attachable :
       /\ Commit(DictSetControl(Here, TheDictionary, name, n))
       /\ Mirror(NgSetControl(direct, TheDictionary, name, n))
       /\ Log(Call("setControl", TheDictionary, name, 0, n,
                       OldAt(controls[TheDictionary], name)))
  /\ UNCHANGED <<impl, built, recording, composition, validation, typing>>

ArrayPushCall ==
  /\ TheArray \in built
  /\ Len(controls[TheArray]) < MaxLen
  /\ \E n \in Attachable :
       /\ Commit(ArrayPush(Here, TheArray, n))
       /\ Mirror(NgPush(direct, TheArray, n))
       /\ Log(Call("push", TheArray, "", Len(controls[TheArray]), n, None))
  /\ UNCHANGED <<impl, built, recording, composition, validation, typing>>

ArrayInsertCall ==
  /\ TheArray \in built
  /\ Len(controls[TheArray]) < MaxLen
  /\ \E index \in Indices, n \in Attachable :
       /\ Commit(ArrayInsert(Here, TheArray, index, n))
       /\ Mirror(NgInsert(direct, TheArray, index, n))
       /\ Log(Call("insert", TheArray, "", index, n, None))
  /\ UNCHANGED <<impl, built, recording, composition, validation, typing>>

ArrayRemoveAtCall ==
  /\ TheArray \in built
  /\ \E index \in Indices :
       /\ Commit(ArrayRemoveAt(Here, TheArray, index))
       /\ Mirror(NgRemoveAt(direct, TheArray, index))
       /\ Log(Call("removeAt", TheArray, "", index, None, Displaced(controls[TheArray], index)))
  /\ UNCHANGED <<impl, built, recording, composition, validation, typing>>

ArraySetControlCall ==
  /\ TheArray \in built
  /\ \E index \in Indices, n \in Attachable :
       /\ Len(SpliceRemove(controls[TheArray], index)) < MaxLen
       /\ Commit(ArraySetControl(Here, TheArray, index, n))
       /\ Mirror(NgArraySetControl(direct, TheArray, index, n))
       /\ Log(Call("setControl", TheArray, "", index, n, Displaced(controls[TheArray], index)))
  /\ UNCHANGED <<impl, built, recording, composition, validation, typing>>

\* group.setControl(name, null)
GroupSetControlAbsentCall ==
  /\ TheGroup \in built
  /\ \E name \in Fields :
       /\ Commit(SetControlAbsent(Here, TheGroup, name))
       /\ Mirror(direct)
       /\ Log(Call("setControl", TheGroup, name, 0, None, OldAt(controls[TheGroup], name)))
  /\ UNCHANGED <<impl, built, recording, composition, validation, typing>>

\* dictionary.setControl(name, null)
DictSetControlAbsentCall ==
  /\ TheDictionary \in built
  /\ \E name \in Keys :
       /\ Commit(SetControlAbsent(Here, TheDictionary, name))
       /\ Mirror(direct)
       /\ Log(Call("setControl", TheDictionary, name, 0, None, OldAt(controls[TheDictionary], name)))
  /\ UNCHANGED <<impl, built, recording, composition, validation, typing>>

\* array.setControl(index, null)
ArraySetControlAbsentCall ==
  /\ TheArray \in built
  /\ \E index \in Indices :
       /\ Commit(ArraySetControlAbsent(Here, TheArray, index))
       /\ Mirror(direct)
       /\ Log(Call("setControl", TheArray, "", index, None, Displaced(controls[TheArray], index)))
  /\ UNCHANGED <<impl, built, recording, composition, validation, typing>>

\* A.at(index) reads and changes nothing; the history keeps what it returned
ArrayAtCall ==
  /\ TheArray \in built
  /\ \E index \in Indices :
       Log(Call("at", TheArray, "", index, ArrayAt(Here, TheArray, index), None))
  /\ UNCHANGED <<Structure, disabled, value, direct, impl, built, recording, composition, validation, typing>>

\* n.disable(opts) on a leaf or on a constructed container
DisableCall ==
  /\ \E n \in Leaves \cup built, onlySelf \in BOOLEAN :
       /\ Commit(Disable(Here, n, onlySelf))
       /\ Mirror(NgDisable(direct, n, onlySelf))
       /\ Log(Call("disable", n, "", 0, None, None))
  /\ UNCHANGED <<impl, built, recording, composition, validation, typing>>

\* n.enable(opts) on a leaf or on a constructed container
EnableCall ==
  /\ \E n \in Leaves \cup built, onlySelf \in BOOLEAN :
       /\ Commit(Enable(Here, n, onlySelf))
       /\ Mirror(NgEnable(direct, n, onlySelf))
       /\ Log(Call("enable", n, "", 0, None, None))
  /\ UNCHANGED <<impl, built, recording, composition, validation, typing>>

\* the values complete for the current shape of n: one part per child
CompleteValues(n) == IF n \in Leaves THEN Values ELSE [DOMAIN controls[n] -> Values]

\* the orders in which a value's keys can be enumerated: an array's by
\* index, an object's in the order its writer inserted them
KeyOrders(n) ==
  IF n \in Leaves THEN {<<>>}
  ELSE IF n = TheArray THEN {[i \in DOMAIN controls[n] |-> i]}
  ELSE {o \in [1..Cardinality(DOMAIN controls[n]) -> DOMAIN controls[n]] :
          \A i, j \in DOMAIN o : i # j => o[i] # o[j]}

\* n.setValue(v) with the default options, v complete for n
SetValueCall ==
  /\ \E n \in Leaves \cup built :
       \E v \in CompleteValues(n), order \in KeyOrders(n) :
         /\ Commit(SetValue(Here, n, v, order, FALSE))
         /\ Mirror(NgSetValue(direct, n, v, order, FALSE))
         /\ Log([Call("setValue", n, "", 0, None, None) EXCEPT !.v = v])
  /\ UNCHANGED <<impl, built, recording, composition, validation, typing>>

\* the children a container is constructed over where containers nest: one
\* leaf and the containers that exist
Nestable == {<<"control", 1>>} \cup built

\* new TypedFormGroup / new TypedFormDictionary / new TypedFormArray over
\* leaves and containers
NewNested ==
  \E c \in Containers \ built :
    /\ \E cs \in (IF c = TheGroup THEN [Fields -> Nestable]
                  ELSE IF c = TheDictionary THEN PartialMaps(Keys, Nestable)
                  ELSE SeqsUpTo(Nestable, MaxLen)) :
         /\ Commit(Construct(Here, c, cs))
         /\ Mirror(NgConstruct(direct, c, cs))
         /\ Log(Call("new", c, "", 0, None, None))
    /\ built' = built \cup {c}
    /\ UNCHANGED <<impl, recording, composition, validation, typing>>

\* the segments offered: a field, an index in range, an index out of range,
\* the name of no child, 'length'
Segments == {Str("a"), Num(0), Num(MaxLen), Str("x"), Str("length")}

\* the paths of two segments offered as arrays
Pairs ==
  {<<Str("a"), Num(0)>>, <<Num(0), Str("a")>>, <<Str("usa"), Str("a")>>}

\* the paths offered as strings: '', 'a', 'usa', 'a.0', '0.a'
Strings == {<<>>, <<"a">>, <<"usa">>, <<"a", ".", "0">>, <<"0", ".", "a">>}

\* the paths offered: null, arrays of segments, strings
Paths ==
  {JsNull} \cup {ListOf(l) : l \in {<<>>} \cup {<<s>> : s \in Segments} \cup Pairs}
           \cup {StringOf(l) : l \in Strings}

\* n.get(path) on the leaf or on a container reads and changes nothing; the
\* history keeps the path and what came back
GetCall ==
  /\ \E n \in Nestable, path \in Paths :
       Log([Call("get", n, "", 0, Get(Here, n, path), None) EXCEPT !.v = path])
  /\ UNCHANGED <<Structure, disabled, value, direct, impl, built, recording, composition, validation, typing>>

\* n.setParent(p) on the leaf or on a container, p any container
SetParentCall ==
  /\ \E n \in Nestable, p \in built :
       /\ Commit(SetParent(Here, n, p))
       /\ Mirror(NgSetParent(direct, n, p))
       /\ Log(Call("setParent", p, "", 0, n, None))
  /\ UNCHANGED <<impl, built, recording, composition, validation, typing>>

\* A.push(control), control the leaf or a container, A itself included
ArrayPushNested ==
  /\ TheArray \in built
  /\ Len(controls[TheArray]) < MaxLen
  /\ \E n \in Nestable :
       /\ Commit(ArrayPush(Here, TheArray, n))
       /\ Mirror(NgPush(direct, TheArray, n))
       /\ Log(Call("push", TheArray, "", Len(controls[TheArray]), n, None))
  /\ UNCHANGED <<impl, built, recording, composition, validation, typing>>

\* n.root reads and changes nothing; the history keeps what came back
RootCall ==
  /\ \E n \in Nestable : Log(Call("root", n, "", 0, Root(Here, n), None))
  /\ UNCHANGED <<Structure, disabled, value, direct, impl, built, recording, composition, validation, typing>>

\* the fields of the one control, and the call that assigned them
CommitSelf(op, t) ==
  /\ kind' = t.kind
  /\ status' = t.status
  /\ errors' = t.errors
  /\ pristine' = t.pristine
  /\ touched' = t.touched
  /\ children' = t.children
  /\ hasControls' = t.hasControls
  /\ rawValidators' = t.rawValidators
  /\ validator' = t.validator
  /\ ngValidator' = t.ngValidator
  /\ rawAsyncValidators' = t.rawAsyncValidators
  /\ asyncValidator' = t.asyncValidator
  /\ ngAsyncValidator' = t.ngAsyncValidator
  /\ inflight' = t.inflight
  /\ observed' = t.observed
  /\ runs' = t.runs
  /\ notified' = t.notified
  /\ did' = op
  /\ UNCHANGED <<tree, composition, typing>>

\* the typed validators offered: one that passes and two that fail
TypedFns ==
  {ValidatorFn(JsNull), ValidatorFn(ErrorsOf([required |-> 1])), ValidatorFn(ErrorsOf([min |-> 1]))}

\* the typed async validators offered: a promise that passes, an observable
\* that fails
TypedAsyncFns ==
  {ValidatorFn(AsyncObject(TRUE, FALSE, JsNull)),
   ValidatorFn(AsyncObject(FALSE, TRUE, ErrorsOf([required |-> 2])))}

\* what is handed over as validators: nothing, one function, an array
Given(fns, n) == {JsNull, JsUndefined} \cup fns \cup {ListOf(l) : l \in SeqsUpTo(fns, n)}

\* new TypedFormControl / TypedFormGroup / TypedFormDictionary /
\* TypedFormArray(..., validatorOrOpts, asyncValidator), the validators from
\* vs and avs; a container's children are none, some enabled, or all disabled
NewWith(vs, avs) ==
  /\ kind = "none"
  /\ \E k \in Kinds, v \in vs, av \in avs :
       \E kids \in (IF k = "control" THEN {"none"} ELSE {"none", "enabled", "disabled"}) :
         CommitSelf("new", IF impl = "models" THEN NewTyped(k, kids, v, av)
                                             ELSE NewLegacy(k, kids, v, av))

MarkAsTouchedCall == kind # "none" /\ CommitSelf("markAsTouched", MarkAsTouched(Self))

MarkAsUntouchedCall == kind # "none" /\ CommitSelf("markAsUntouched", MarkAsUntouched(Self))

MarkAsDirtyCall == kind # "none" /\ CommitSelf("markAsDirty", MarkAsDirty(Self))

MarkAsPristineCall == kind # "none" /\ CommitSelf("markAsPristine", MarkAsPristine(Self))

MarkAsPendingCall ==
  /\ kind # "none"
  /\ \E emitEvent \in BOOLEAN : CommitSelf("markAsPending", MarkAsPending(Self, emitEvent))

DisableControlCall ==
  /\ kind # "none"
  /\ \E emitEvent \in BOOLEAN : CommitSelf("disable", DisableControl(Self, emitEvent))

EnableControlCall ==
  /\ kind # "none"
  /\ \E emitEvent \in BOOLEAN : CommitSelf("enable", EnableControl(Self, emitEvent))

SetErrorsCall ==
  /\ kind # "none"
  /\ \E errs \in {JsNull, ErrorsOf([min |-> 1])}, emitEvent \in BOOLEAN :
       CommitSelf("setErrors", SetErrors(Self, errs, emitEvent))

UpdateValueAndValidityCall ==
  /\ kind # "none"
  /\ \E emitEvent \in BOOLEAN :
       CommitSelf("updateValueAndValidity", UpdateValueAndValidity(Self, emitEvent))

\* the promise or observable of the async validator settles
SettleStepSelf ==
  /\ inflight # "none"
  /\ CommitSelf("settle", Settle(Self))

\* the validators handed to setValidators: nothing, one function, an array
SetValidatorsCall ==
  /\ kind # "none"
  /\ \E v \in Given({ValidatorFn(JsNull), ValidatorFn(ErrorsOf([required |-> 1]))}, 2) :
       CommitSelf("setValidators", SetValidators(Self, v))

SetAsyncValidatorsCall ==
  /\ kind # "none"
  /\ \E v \in Given(TypedAsyncFns, 1) :
       CommitSelf("setAsyncValidators", SetAsyncValidators(Self, v))

\* control.validator = fn or null
AssignValidatorCall ==
  /\ kind # "none"
  /\ \E v \in {JsNull} \cup TypedFns :
       CommitSelf("validator =", AssignValidator(Self, v))

\* control.asyncValidator = fn or null
AssignAsyncValidatorCall ==
  /\ kind # "none"
  /\ \E v \in {JsNull} \cup TypedAsyncFns :
       CommitSelf("asyncValidator =", AssignAsyncValidator(Self, v))

ClearValidatorsCall == kind # "none" /\ CommitSelf("clearValidators", ClearValidators(Self))

ClearAsyncValidatorsCall ==
  kind # "none" /\ CommitSelf("clearAsyncValidators", ClearAsyncValidators(Self))

\* the entries of the list handed to compose: null, undefined, validators
SyncEntries == {JsNull, JsUndefined} \cup {ValidatorFn(r) : r \in Results}

\* what the async validators return: objects with a callable then or a
\* callable subscribe that settle with null or with an error mapping; an
\* object with both; an object with neither; null
AsyncReturns ==
  {AsyncObject(t, ~t, r) : t \in BOOLEAN, r \in Results \ {ErrorsOf(EmptyMap)}}
  \cup {AsyncObject(TRUE, TRUE, JsNull), AsyncObject(FALSE, FALSE, JsNull), JsNull}

\* the entries of the list handed to composeAsync
AsyncEntries == {JsNull, JsUndefined} \cup {ValidatorFn(r) : r \in AsyncReturns}

\* the lists handed to a composer: null, or an array of at most MaxValidators
Lists(entries) == {JsNull} \cup {ListOf(l) : l \in SeqsUpTo(entries, MaxValidators)}

\* the typed validators belong to the models variant; the tree stays as built
InitCompose ==
  /\ StartTree /\ impl = "models" /\ recording = "off"
  /\ validators \in Lists(SyncEntries)
  /\ Uncomposed /\ Unborn /\ Untyped

InitComposeAsync ==
  /\ StartTree /\ impl = "models" /\ recording = "off"
  /\ validators \in Lists(AsyncEntries)
  /\ Uncomposed /\ Unborn /\ Untyped

\* nobody has called the validators of fn yet
NotCalled(fn) ==
  IF fn.tag = "function" THEN [i \in DOMAIN fn.validators |-> <<>>] ELSE <<>>

\* TypedValidators.compose(validators)
ComposeCall ==
  /\ composed = JsUndefined
  /\ composed' = compose(validators)
  /\ received' = NotCalled(compose(validators))
  /\ UNCHANGED <<tree, validation, typing, validators, streams, settled, emitted, thrown>>

\* composed(control): the function compose returned, applied to a control
ApplyCall ==
  /\ composed.tag = "function"
  /\ emitted = <<>>
  /\ \E c \in Leaves :
       /\ received' = [i \in DOMAIN received |-> Append(received[i], c)]
       /\ emitted' = <<mergeErrors(executeValidators(c, composed.validators))>>
  /\ UNCHANGED <<tree, validation, typing, validators, composed, streams, settled, thrown>>

\* TypedValidators.composeAsync(validators)
ComposeAsyncCall ==
  /\ composed = JsUndefined
  /\ composed' = compose(validators)
  /\ received' = NotCalled(compose(validators))
  /\ UNCHANGED <<tree, validation, typing, validators, streams, settled, emitted, thrown>>

\* composed(control) for the function composeAsync returned, subscribed to by
\* its caller: every validator is called, each return value goes through
\* toObservable, forkJoin subscribes to them all; one value that is not
\* convertible makes the invocation throw
InvokeCall ==
  /\ composed.tag = "function"
  /\ streams = <<>> /\ ~thrown
  /\ \E c \in Leaves :
       LET returns == executeValidators(c, composed.validators)
           observables == [i \in DOMAIN returns |-> toObservable(returns[i])]
       IN  /\ received' = [i \in DOMAIN received |-> Append(received[i], c)]
           /\ IF \E i \in DOMAIN observables : observables[i].tag = "thrown"
              THEN thrown' = TRUE /\ streams' = <<>>
              ELSE thrown' = FALSE /\ streams' = observables
  /\ UNCHANGED <<tree, validation, typing, validators, composed, settled, emitted>>

\* one of the pending results settles; forkJoin(...).pipe(map(mergeErrors))
\* delivers what forkJoin emits, merged
SettleStep ==
  /\ \E i \in DOMAIN streams :
       /\ i \notin Range(settled)
       /\ settled' = Append(settled, i)
       /\ LET out == forkJoin(streams, Append(settled, i))
          IN  emitted' = emitted \o [j \in DOMAIN out |-> mergeErrors(out[j])]
  /\ UNCHANGED <<tree, validation, typing, validators, composed, received, streams, thrown>>

Next ==
  \/ NewGroup
  \/ NewDictionary
  \/ NewArray
  \/ GroupSetControlCall
  \/ DictRegisterControlCall
  \/ DictAddControlCall
  \/ DictRemoveControlCall
  \/ DictSetControlCall
  \/ ArrayPushCall
  \/ ArrayInsertCall
  \/ ArrayRemoveAtCall
  \/ ArraySetControlCall

NextGroup == NewGroup \/ GroupSetControlCall

NextDictionary ==
  \/ NewDictionary
  \/ DictRegisterControlCall
  \/ DictAddControlCall
  \/ DictRemoveControlCall
  \/ DictSetControlCall

NextArray ==
  \/ NewArray
  \/ ArrayPushCall
  \/ ArrayInsertCall
  \/ ArrayRemoveAtCall
  \/ ArraySetControlCall
  \/ ArrayAtCall

\* the whole tree: a Group, a Dictionary and an Array over the same leaves
Spec == Init /\ [][Next]_vars

\* one class at a time, with the call history
SpecGroup == InitRecorded /\ [][NextGroup]_vars

SpecDictionary == InitRecorded /\ [][NextDictionary]_vars

SpecArray == InitRecorded /\ [][NextArray]_vars

\* the Dictionary with its children and itself being disabled and enabled
NextDictionaryStatus == NextDictionary \/ DisableCall \/ EnableCall

SpecDictionaryStatus == InitRecorded /\ [][NextDictionaryStatus]_vars

\* one container of any class over the leaves, with structural mutation,
\* disable/enable and setValue
NextValues ==
  \/ built \subseteq {TheGroup} /\ NextGroup
  \/ built \subseteq {TheDictionary} /\ NextDictionary
  \/ built \subseteq {TheArray} /\ NextArray
  \/ DisableCall
  \/ EnableCall
  \/ SetValueCall

SpecValues == InitValues /\ [][NextValues]_vars

\* containers nested in containers, and get(path) on every node
NextPaths == NewNested \/ GetCall

SpecPaths == InitPaths /\ [][NextPaths]_vars

\* a Group and an Array nested in one another by the constructors, by push
\* and by setParent, and root on every node
NextLinks ==
  \/ NewNested /\ TheDictionary \notin built'
  \/ SetParentCall
  \/ ArrayPushNested
  \/ RootCall

SpecLinks == InitPaths /\ [][NextLinks]_vars

\* one control of any class, constructed with or without validators, and
\* the calls that change its status and its flags
NextStatus ==
  \/ NewWith({JsNull, ValidatorFn(ErrorsOf([required |-> 1]))},
             {JsNull, ValidatorFn(AsyncObject(TRUE, FALSE, JsNull))})
  \/ MarkAsTouchedCall
  \/ MarkAsUntouchedCall
  \/ MarkAsDirtyCall
  \/ MarkAsPristineCall
  \/ MarkAsPendingCall
  \/ DisableControlCall
  \/ EnableControlCall
  \/ SetErrorsCall
  \/ UpdateValueAndValidityCall
  \/ SettleStepSelf

SpecStatus == Init /\ [][NextStatus]_vars

\* one control of any class constructed with validators of every shape, and
\* what follows its birth
NextBirth ==
  \/ NewWith(Given(TypedFns, 2), {JsNull} \cup TypedAsyncFns)
  \/ UpdateValueAndValidityCall
  \/ SettleStepSelf

SpecBirth == Init /\ [][NextBirth]_vars

\* compose and one application of the function it returns
NextCompose == ComposeCall \/ ApplyCall

SpecCompose == InitCompose /\ [][NextCompose]_vars

\* composeAsync, one invocation of the function it returns, and the
\* settling of the validators' results in any order
NextComposeAsync == ComposeAsyncCall \/ InvokeCall \/ SettleStep

SpecComposeAsync == InitComposeAsync /\ [][NextComposeAsync]_vars

(* ------------------------------ claims -------------------------------- *)

\* how often node n occurs among the children the wrapper c holds
Occurrences(c, n) == Cardinality({k \in DOMAIN controls[c] : controls[c][k] = n})

\* C1: in every reachable state, for every node, the wrapper's parent reference
\* is container P exactly when the node's runtime control has P's runtime
\* control as its parent, and is none exactly when the runtime control has no
\* parent; children handed to a constructor included.
C1_ParentLinksAgree == \A n \in Nodes : parent[n] = ngParent[n]

\* C2: after any sequence of push, insert, removeAt and setControl with any
\* integer indices, the Array wrapper's child sequence and the runtime
\* control's child sequence have the same length and hold, index by index,
\* the same child.
C2_ArrayInLockstep ==
  /\ Len(controls[TheArray]) = Len(ngControls[TheArray])
  /\ \A i \in 1..Len(controls[TheArray]) : ngControls[TheArray][i] = controls[TheArray][i]

\* a state after a setControl with a negative index that displaced a child of
\* an Array holding another child as well
C2_Witness ==
  /\ last.op = "setControl" /\ last.c = TheArray
  /\ last.index < 0
  /\ last.old # None /\ last.old # last.node
  /\ Len(controls[TheArray]) = MaxLen

C4_GroupFieldsFixed ==
  TheGroup \in built =>
    /\ DOMAIN controls[TheGroup] = Fields
    /\ DOMAIN ngControls[TheGroup] = Fields

\* a state after a setControl that put another node in the place of a field's
\* child
C4_Witness ==
  /\ last.op = "setControl" /\ last.c = TheGroup
  /\ last.old # None /\ last.old # last.node
  /\ controls[TheGroup][last.name] = last.node

\* C5: after G.setControl(k, newNode) on a Fixed Group whose field k held old:
\* G.controls[k] is newNode, newNode.parent is G, the runtime child at k is
\* newNode's runtime control, and old (another node, no longer a child of G)
\* has no parent.
C5_GroupSetControlReplaces ==
  (last.op = "setControl" /\ last.c = TheGroup) =>
    /\ controls[TheGroup][last.name] = last.node
    /\ parent[last.node] = TheGroup
    /\ ngControls[TheGroup][last.name] = last.node
    /\ (last.old # last.node /\ Occurrences(TheGroup, last.old) = 0)
         => parent[last.old] = None

\* C6: each node is a child of at most one container, at most once, and is a
\* child of container P exactly when its parent reference is P.
C6_NeverShared ==
  \A n \in Nodes :
    /\ Cardinality({c \in Containers : Occurrences(c, n) > 0}) <= 1
    /\ \A c \in Containers :
         /\ Occurrences(c, n) <= 1
         /\ Occurrences(c, n) > 0 <=> parent[n] = c

C8_RemoveControl ==
  [][last'.op = "removeControl" =>
       /\ last'.name \notin DOMAIN controls'[TheDictionary]
       /\ last'.name \notin DOMAIN ngControls'[TheDictionary]
       /\ ~DictContains([ngControls |-> ngControls', disabled |-> disabled'],
                        TheDictionary, last'.name)
       /\ last'.old = None => UNCHANGED Structure]_vars

\* a state after a removeControl of an absent key on a Dictionary that holds
\* a child under another key
C8_Witness ==
  /\ last.op = "removeControl"
  /\ last.old = None
  /\ DOMAIN controls[TheDictionary] # {}

\* C9: after D.removeControl(k) on a key that held n, n (no longer a child of
\* D) has no parent and its runtime control has no parent.
C9_RemoveControlDetaches ==
  (/\ last.op = "removeControl"
   /\ last.old # None
   /\ Occurrences(TheDictionary, last.old) = 0) =>
    /\ parent[last.old] = None
    /\ ngParent[last.old] = None

\* C10: after D.setControl(k, m), k present or absent, D.controls[k] is m,
\* m.parent is D and the runtime child at k is m's runtime control; a
\* previous child old of k (another node, no longer a child of D) has no
\* parent.
C10_DictionarySetControl ==
  (last.op = "setControl" /\ last.c = TheDictionary) =>
    /\ controls[TheDictionary][last.name] = last.node
    /\ parent[last.node] = TheDictionary
    /\ ngControls[TheDictionary][last.name] = last.node
    /\ (/\ last.old # None
        /\ last.old # last.node
        /\ Occurrences(TheDictionary, last.old) = 0) => parent[last.old] = None

\* C11: in every state reached by adding, registering, removing and setting
\* entries and by disabling and enabling nodes, D.contains(k) is true exactly
\* when k is among the runtime control's children and that child is enabled;
\* so a key of D.controls whose child is disabled has contains(k) false.
C11_Contains ==
  \A k \in Keys :
    /\ DictContains(Here, TheDictionary, k) <=>
         /\ k \in DOMAIN ngControls[TheDictionary]
         /\ ngControls[TheDictionary][k] \notin disabled
    /\ (/\ k \in DOMAIN controls[TheDictionary]
        /\ controls[TheDictionary][k] \in disabled) =>
         ~DictContains(Here, TheDictionary, k)

\* a Dictionary holding a disabled child under one key and an enabled child
\* under another, right after the disable
C11_Witness ==
  /\ last.op = "disable"
  /\ \E k1, k2 \in DOMAIN controls[TheDictionary] :
       /\ controls[TheDictionary][k1] \in disabled
       /\ ~DictContains(Here, TheDictionary, k1)
       /\ controls[TheDictionary][k2] \notin disabled
       /\ DictContains(Here, TheDictionary, k2)

\* C12: for an Array A of length n and a node x, after A.push(x) the length
\* is n+1, A.at(n) is x, x.parent is A, and A.at(i) is unchanged for i < n.
C12_Push ==
  [][last'.op = "push" =>
       LET n == Len(controls[TheArray])
           after == [controls |-> controls']
       IN  /\ Len(controls'[TheArray]) = n + 1
           /\ ArrayAt(after, TheArray, n) = last'.node
           /\ parent'[last'.node] = TheArray
           /\ \A i \in 0..(n - 1) :
                ArrayAt(after, TheArray, i) = ArrayAt(Here, TheArray, i)]_vars

\* a state after a push onto an Array that held a child already
C12_Witness ==
  /\ last.op = "push"
  /\ last.index > 0
  /\ Len(controls[TheArray]) = last.index + 1
  /\ controls[TheArray][last.index + 1] = last.node

\* C13: for 0 <= i < n with A holding r at i, after A.removeAt(i) the length
\* is n-1, the remaining children keep their relative order and r (no longer
\* a child of A) has no parent and its runtime control has no parent; the
\* node that A.setControl(i, node) displaces (another node, no longer a child
\* of A) is detached the same way.
C13_RemoveAtDetaches ==
  [][LET n == Len(controls[TheArray])
         i == last'.index
         r == last'.old
         Detached == (\A k \in DOMAIN controls'[TheArray] : controls'[TheArray][k] # r) =>
                       parent'[r] = None /\ ngParent'[r] = None
     IN  /\ (last'.op = "removeAt" /\ i >= 0 /\ i < n) =>
               /\ Len(controls'[TheArray]) = n - 1
               /\ controls'[TheArray] =
                    SubSeq(controls[TheArray], 1, i) \o SubSeq(controls[TheArray], i + 2, n)
               /\ Detached
         /\ (/\ last'.op = "setControl" /\ last'.c = TheArray
             /\ i >= 0 /\ i < n /\ r # last'.node) => Detached]_vars

\* C14: for every index outside 0..length-1, the empty Array included,
\* A.at(index) returns undefined (None) and leaves A unchanged.
C14_AtOutOfRange ==
  [][(/\ last'.op = "at"
      /\ (last'.index < 0 \/ last'.index >= Len(controls[TheArray]))) =>
       /\ last'.node = None
       /\ UNCHANGED Structure]_vars

\* a state after at(-1) on an Array that holds children
C14_Witness ==
  /\ last.op = "at"
  /\ last.index = 0 - 1
  /\ Len(controls[TheArray]) = MaxLen

Children(n) == IF n \in Leaves THEN {} ELSE Range(controls[n])

C16_ValueIsRuntimeValue ==
  \A n \in Leaves \cup built : GetValue(Here, n) = direct.value[n]

\* the present entries of the list that was composed
Present == IF validators.tag = "array" THEN SelectSeq(validators.list, isPresent) ELSE <<>>

\* what the i-th present validator returns
ReturnOf(i) == Present[i].returns

\* the error codes in use
Codes == UNION {DOMAIN m : m \in ErrorMaps}

\* the union of the error mappings among results, the detail of a code taken
\* from the last result that reports it; null if no code is reported
ExpectedMerge(results) ==
  LET Reporting(k) == {i \in DOMAIN results :
                         results[i].tag = "errors" /\ k \in DOMAIN results[i].map}
      Last(k) == CHOOSE i \in Reporting(k) : \A j \in Reporting(k) : j <= i
      keys == {k \in Codes : Reporting(k) # {}}
  IN  IF keys = {} THEN JsNull ELSE ErrorsOf([k \in keys |-> results[Last(k)].map[k]])

\* every present validator has been called once, on one and the same control
CalledOnceEach ==
  /\ DOMAIN received = DOMAIN Present
  /\ \E c \in Leaves : \A i \in DOMAIN received : received[i] = <<c>>

\* C17: compose returns none exactly when the list is null, empty or holds
\* only null/undefined; otherwise the function it returns, applied to a
\* control, calls every present validator once on that control and returns
\* the union of their error mappings, the later validator's detail winning on
\* a code reported twice, and none when no validator reports a code.
C17_Compose ==
  /\ composed # JsUndefined =>
       /\ (composed = JsNull) <=> (Present = <<>>)
       /\ composed # JsNull => composed = ComposedFn(Present)
  /\ emitted # <<>> =>
       /\ CalledOnceEach
       /\ emitted = <<ExpectedMerge([i \in DOMAIN Present |-> ReturnOf(i)])>>

\* after applying the composition of a list with an absent entry and two
\* validators that report the same code with different details
C17_Witness ==
  /\ emitted # <<>>
  /\ Len(validators.list) > Len(Present)
  /\ Len(Present) = 2
  /\ \A i \in {1, 2} : ReturnOf(i).tag = "errors" /\ "required" \in DOMAIN ReturnOf(i).map
  /\ ReturnOf(1).map["required"] # ReturnOf(2).map["required"]
  /\ emitted[1] = ReturnOf(2)

\* C18: the function composeAsync returns, invoked on a control, has called
\* all N validators by the time it waits for any result, delivers nothing
\* while a result is outstanding, whatever the order they settle in, and once
\* all have settled has delivered exactly one result: the merge of the
\* validators' results, none if all are null.
C18_ComposeAsyncJoins ==
  streams # <<>> =>
    /\ CalledOnceEach
    /\ Len(streams) = Len(Present)
    /\ Len(settled) < Len(streams) => emitted = <<>>
    /\ Len(settled) = Len(streams) =>
         emitted = <<ExpectedMerge([i \in DOMAIN Present |-> ReturnOf(i).settles])>>

\* three validators whose results settled last to first, the first and the
\* last reporting one code with different details
C18_Witness ==
  /\ Len(streams) = MaxValidators
  /\ settled = [i \in DOMAIN streams |-> Len(streams) + 1 - i]
  /\ \A i \in {1, Len(streams)} :
       ReturnOf(i).settles.tag = "errors" /\ "required" \in DOMAIN ReturnOf(i).settles.map
  /\ ReturnOf(1).settles.map["required"] # ReturnOf(Len(streams)).settles.map["required"]
  /\ Len(emitted) = 1

\* the composed async function has been invoked
Invoked == received # <<>> /\ \A i \in DOMAIN received : received[i] # <<>>

\* a present validator returns what is neither promise-like nor observable-like
SomeNotAsync ==
  \E i \in DOMAIN Present : ~isPromise(ReturnOf(i)) /\ ~isSubscribable(ReturnOf(i))

\* C19: when one validator of an invoked async composition returns a value
\* with neither a callable then nor a callable subscribe, the invocation has
\* thrown, waits for nothing and never delivers a result; otherwise it has
\* not thrown, each promise-like return value was converted to a stream and
\* each other (observable-like) one is waited on as it is.
C19_ToObservable ==
  Invoked =>
    IF SomeNotAsync
    THEN thrown /\ streams = <<>> /\ emitted = <<>>
    ELSE /\ ~thrown
         /\ DOMAIN streams = DOMAIN Present
         /\ \A i \in DOMAIN streams :
              IF isPromise(ReturnOf(i))
              THEN /\ streams[i] # ReturnOf(i)
                   /\ isObservable(streams[i]) /\ ~isPromise(streams[i])
                   /\ streams[i].from = ReturnOf(i)
              ELSE streams[i] = ReturnOf(i)

\* an invocation that threw although its first validator returned a promise:
\* the last one returned null
C19_Witness ==
  /\ Invoked /\ thrown
  /\ Len(Present) = MaxValidators
  /\ isPromise(ReturnOf(1))
  /\ ReturnOf(MaxValidators) = JsNull

\* the child a segment names: a Group's field, a Dictionary's key, an
\* Array's element at a numeric index in range
Child(n, name) ==
  IF n[1] \in {"group", "dictionary"}
  THEN OldAt(controls[n], PropertyKey(name))
  ELSE IF n[1] = "array"
  THEN LET hits == {i \in 1..Len(controls[n]) : ToString(i - 1) = PropertyKey(name)}
       IN  IF hits = {} THEN None ELSE controls[n][CHOOSE i \in hits : TRUE]
  ELSE None

\* the descendant a list of segments leads to, None from the first segment
\* that names no child
RECURSIVE Resolve(_, _)
Resolve(n, names) ==
  IF names = <<>> \/ n = None THEN n ELSE Resolve(Child(n, Head(names)), Tail(names))

\* the segments of a path: the array itself, or the pieces between the dots
SegmentsOf(path) == IF path.tag = "array" THEN path.list ELSE Split(path.chunks, ".")

\* C20: n.get(path) returns the descendant reached by resolving the segments
\* in order (Group by field, Dictionary by key, Array by numeric index), and
\* none, raising nothing, for a null or empty path and from the first segment
\* that names no child; what it returns is none or a node.
C20_Get ==
  last.op = "get" =>
    /\ last.node \in Nodes \cup {None}
    /\ last.node = IF last.v = JsNull \/ SegmentsOf(last.v) = <<>> THEN None
                   ELSE Resolve(last.c, SegmentsOf(last.v))

\* the containers that hold n as a child
Holders(n) == {c \in built : n \in Range(controls[c])}

\* the containers that hold one of ns, or hold a container that does, ...
RECURSIVE HoldersUpTo(_, _)
HoldersUpTo(ns, links) ==
  LET up == UNION {Holders(n) : n \in ns}
  IN  IF links = 0 \/ up \subseteq ns THEN ns ELSE HoldersUpTo(ns \cup up, links - 1)

\* the containers n is in, directly or through containers
Above(n) == HoldersUpTo(Holders(n), Depth)

\* C21: n.root is the topmost node of the tree that contains n, a node no
\* container holds, and it is n itself only when no container holds n.
C21_Root ==
  last.op = "root" =>
    /\ last.node \in Nodes
    /\ Holders(last.node) = {}
    /\ last.node = last.c => Holders(last.c) = {}
    /\ last.node # last.c => last.node \in Above(last.c)

\* C22: the parent links never form a cycle: no node is its own ancestor,
\* so the walk of root ends for every node.
C22_NoCycle == \A n \in Nodes : Root(Here, n) # Diverges

\* C23: the status of a constructed control is one of the four values,
\* exactly one of valid, invalid, pending and disabled is true and it is the
\* one of the status; enabled is the negation of disabled, dirty of pristine,
\* untouched of touched.
C23_StatusFlags ==
  kind # "none" =>
    /\ status \in Statuses
    /\ Cardinality({f \in {"valid", "invalid", "pending", "disabled"} :
                      \/ f = "valid" /\ Valid(Self)
                      \/ f = "invalid" /\ Invalid(Self)
                      \/ f = "pending" /\ Pending(Self)
                      \/ f = "disabled" /\ Disabled(Self)}) = 1
    /\ Valid(Self) <=> status = VALID
    /\ Invalid(Self) <=> status = INVALID
    /\ Pending(Self) <=> status = PENDING
    /\ Disabled(Self) <=> status = DISABLED
    /\ Enabled(Self) <=> ~Disabled(Self)
    /\ Dirty(Self) <=> ~Pristine(Self)
    /\ Untouched(Self) <=> ~Touched(Self)

\* a control that is pending, dirty and touched
C23_Witness ==
  /\ kind # "none"
  /\ status = PENDING /\ ~pristine /\ touched /\ did = "markAsTouched"

\* what the validators given to the constructor return, in their order
GivenResults ==
  IF rawValidators.tag = "array"
  THEN [i \in DOMAIN rawValidators.list |-> rawValidators.list[i].returns]
  ELSE IF rawValidators.tag = "validator" THEN <<rawValidators.returns>>
  ELSE <<>>

\* the control has just been constructed with at least one validator
BornWithValidators == did = "new" /\ GivenResults # <<>>

InitTypes ==
  /\ StartTree /\ recording = "off"
  /\ validators = JsNull /\ Uncomposed /\ Unborn
  /\ typeArgument \in NodeTypes \cup PlainTypes
  /\ typeResult = NoResult
  /\ dictionary = NoDictionary

\* ValueType<T> is taken of the type
ValueTypeCall ==
  /\ typeResult' = [op |-> "ValueType", type |-> ValueType(impl, typeArgument)]
  /\ UNCHANGED <<tree, composition, validation, typeArgument, dictionary>>

\* the type of .value of a node of the type is read
ValueGetterCall ==
  /\ typeArgument \in NodeTypes
  /\ typeResult' = [op |-> "value", type |-> ValueGetter(impl, typeArgument)]
  /\ UNCHANGED <<tree, composition, validation, typeArgument, dictionary>>

\* the type of what .valueChanges of a node of the type emits is read
ValueChangesGetterCall ==
  /\ typeArgument \in NodeTypes
  /\ typeResult' = [op |-> "valueChanges", type |-> ValueChangesGetter(impl, typeArgument)]
  /\ UNCHANGED <<tree, composition, validation, typeArgument, dictionary>>

\* the type of what setValue of a node of the type takes is read
SetValueParameterCall ==
  /\ typeArgument \in NodeTypes
  /\ typeResult' = [op |-> "setValue", type |-> SetValueParameter(impl, typeArgument)]
  /\ UNCHANGED <<tree, composition, validation, typeArgument, dictionary>>

NextTypes ==
  \/ ValueTypeCall
  \/ ValueGetterCall
  \/ ValueChangesGetterCall
  \/ SetValueParameterCall

SpecTypes == InitTypes /\ [][NextTypes]_vars

RECURSIVE Derives(_, _)
\* V is the shape of the plain value of the type T: T (or T | null) of a Leaf
\* of T, a sequence of the shape of the elements of an Array, a mapping from
\* string to the shape of the elements of a Dictionary, field by field the
\* shapes of the fields of a Group and of a plain object
Derives(V, T) ==
  CASE T.tag = "TypedFormControl" -> V \in {T.of, UnionOf({T.of, NullType})}
    [] T.tag = "TypedFormArray" -> V.tag = "T[]" /\ Derives(V.of, T.of)
    [] T.tag = "TypedFormDictionary" ->
         /\ V.tag \in {"Map<string, T>", "{ [key: string]: T }"}
         /\ Derives(V.of, T.of)
    [] T.tag \in {"TypedFormGroup", "object"} ->
         /\ V.tag = "object"
         /\ DOMAIN V.fields = DOMAIN T.fields
         /\ \A K \in DOMAIN T.fields : Derives(V.fields[K], T.fields[K])
    [] OTHER -> V = T

\* C25: ValueType of every node type of bounded nesting, and of every plain
\* object of node types, is the shape of its plain value: T (or T | null) of a
\* Leaf, a sequence of the derived element type of an Array, a mapping from
\* string to the derived element type of a Dictionary, field by field of a
\* Group and of a plain object; never the element node type itself.
C25_ValueType ==
  typeResult.op = "ValueType" => Derives(typeResult.type, typeArgument)

\* C26: the declared type of .value of a node, of what its .valueChanges emits
\* and of what its setValue takes is ValueType of the type of the node itself.
C26_DeclaredValue ==
  typeResult.op \in {"value", "valueChanges", "setValue"}
    => typeResult.type = ValueType(impl, typeArgument)

(* ------------------------ the type of a Dictionary ---------------------- *)

InitDictionaryType ==
  /\ StartTree /\ recording = "off"
  /\ validators = JsNull /\ Uncomposed /\ Unborn
  /\ typeArgument \in ElementTypes
  /\ typeResult = NoResult
  /\ dictionary = NoDictionary

\* new TypedFormDictionary<T>(controls): controls is to be a
\* Record<string, NotUnion<T>>
NewDictionaryCall ==
  /\ ~dictionary.built
  /\ \E given \in ChildSets :
       LET compiles == \A C \in given : Assignable(C, NotUnion(typeArgument))
       IN /\ typeResult' = [op |-> "new", type |-> IF compiles THEN Compiles ELSE CompileError]
          /\ dictionary' = IF compiles THEN [built |-> TRUE, of |-> given] ELSE dictionary
  /\ UNCHANGED <<tree, composition, validation, typeArgument>>

\* addControl(name, control) on a TypedFormDictionary<T>: control is to be a T
AddControlCall ==
  /\ dictionary.built
  /\ \E C \in NodeTypesUpTo(TypeDepth - 1) :
       LET compiles == Assignable(C, typeArgument)
       IN /\ typeResult' = [op |-> "addControl", type |-> IF compiles THEN Compiles ELSE CompileError]
          /\ dictionary' = IF compiles
                           THEN [dictionary EXCEPT !.of = @ \cup {C}]
                           ELSE dictionary
  /\ UNCHANGED <<tree, composition, validation, typeArgument>>

NextDictionaryType == NewDictionaryCall \/ AddControlCall

SpecDictionaryType == InitDictionaryType /\ [][NextDictionaryType]_vars

\* C27: the children a Dictionary is built of and extended with are of one
\* single node type: a child set of two node types, and a child of another
\* type than the children it holds, is refused by the compiler.
C27_OneChildType == dictionary.built => Cardinality(dictionary.of) <= 1

\* C28: a typed validator given to the constructor of a Group, a Dictionary or
\* an Array and called with the wrapper, the pass inside the constructor
\* included, finds the wrapper's controls set.
C28_ControlsSet ==
  kind \in {"group", "dictionary", "array"} => observed # "wrapper without controls"

(* ------------------------ setControl without a node --------------------- *)

\* the three containers over the leaves, and setControl with null
NextAbsent ==
  \/ NewGroup
  \/ NewDictionary
  \/ NewArray
  \/ GroupSetControlAbsentCall
  \/ DictSetControlAbsentCall
  \/ ArraySetControlAbsentCall

SpecAbsent == Init /\ [][NextAbsent]_vars

\* setControl has just been called with null or undefined
AbsentSetControl ==
  GroupSetControlAbsentCall \/ DictSetControlAbsentCall \/ ArraySetControlAbsentCall

\* C29: setControl of an Array, a Dictionary or a Group with a null or
\* undefined node leaves the children of the wrapper and of the runtime
\* control as they were and the same, and the Group with all its fields.
C29_AbsentNode ==
  [][AbsentSetControl =>
       /\ controls' = controls
       /\ ngControls' = ngControls
       /\ \A c \in built : controls'[c] = ngControls'[c]]_vars

(* ------------------- the validators of a node replaced ------------------ *)

\* a node constructed with or without validators, and its validators set,
\* cleared and assigned
NextValidators ==
  \/ NewWith({JsNull, ValidatorFn(ErrorsOf([min |-> 1]))}, {JsNull})
  \/ SetValidatorsCall
  \/ SetAsyncValidatorsCall
  \/ AssignValidatorCall
  \/ AssignAsyncValidatorCall
  \/ ClearValidatorsCall
  \/ ClearAsyncValidatorsCall

SpecValidators == Init /\ [][NextValidators]_vars

\* the wrapper's validator v and the runtime control's validator g agree:
\* both none, or both there and g called on a raw control yields what v
\* yields for the wrapper (in the legacy variant v is read off the runtime
\* control)
ValidatorsAgree(v, g) ==
  /\ v = JsNull <=> g = JsNull
  /\ (v # JsNull /\ g # JsNull) =>
       IF impl = "models" THEN NgCall(g, Self) = Invoke(v, Self) ELSE v = g

AsyncValidatorsAgree(v, g) ==
  /\ v = JsNull <=> g = JsNull
  /\ (v # JsNull /\ g # JsNull) =>
       IF impl = "models" THEN NgCallAsync(g, Self) = InvokeAsync(v, Self) ELSE v = g

\* C30: after any sequence of setValidators, clearValidators and assignments
\* to validator, and of their async counterparts, the validator the wrapper
\* exposes and the validator of the runtime control agree.
C30_ValidatorsAgree ==
  kind # "none" =>
    /\ ValidatorsAgree(validator, ngValidator)
    /\ AsyncValidatorsAgree(asyncValidator, ngAsyncValidator)

====
